---- MODULE Spec2Model ----
(***************************************************************************)
(* mcp-database: a protocol proxy that supervises the genai-toolbox        *)
(* subprocess (DatabaseMCPServer in src/cli.ts / src/server.ts), merges    *)
(* its tools with a built-in catalog (builtin-tools.ts) and synthesizes    *)
(* its configuration (config.ts).                                          *)
(*                                                                         *)
(* Objects created by the k-th start() call (client, transport, child      *)
(* process) carry the identity k; 0 stands for null.  JavaScript runs one  *)
(* callback at a time, so every action below is one run of code from one   *)
(* await (or entry) to the next await (or return).                         *)
(***************************************************************************)
EXTENDS Integers, Sequences, FiniteSets, TLC

\* ---------------------------------------------------------------- bounds
MaxStarts == 2          \* start() calls made on one instance
MaxStopCalls == 3       \* stop() calls made on one instance
MaxStops == 2           \* stop() calls in flight at once
MaxNow == 2             \* distinct values Date.now() takes

\* ------------------------------------------------------ program constants
maxAttempts == 20       \* waitForHttpServer: const maxAttempts = 20
delayMs == 250          \* waitForHttpServer: await delay(250)

Ids == 1..MaxStarts
Paths == 1..MaxNow
StopSlots == 1..MaxStops

VARIABLES
    stdio,              \* options.stdio !== false
    prebuiltType,       \* options.prebuiltType ("" when undefined)
    remoteTools,        \* the tool list the engine advertises
    now,                \* last value read from Date.now()
    configPath,         \* this.configPath (0 = null)
    toolboxClient,      \* this.toolboxClient (0 = null)
    toolboxTransport,   \* this.toolboxTransport (0 = null)
    toolboxProcess,     \* this.toolboxProcess (0 = null)
    files,              \* ephemeral config files present on disk
    proc,               \* state of the child process of each start
    handshaken,         \* clients whose connect() completed
    clientCloses,       \* calls of client.close() per client
    transportCloses,    \* calls of transport.close() per transport
    kills,              \* calls of ChildProcess.kill() per process
    unlinks,            \* calls of unlinkSync per path
    frontend,           \* the protocol front-end's transport
    startPc,            \* position of the start() call in flight
    nStarts,            \* start() calls begun so far
    attempts,           \* waitForHttpServer: sockets opened by this poll
    waits,              \* waitForHttpServer: delay(250) completed by it
    stops,              \* the stop() calls in flight
    stopCalls,          \* stop() calls begun so far
    cleanStopAt,        \* nStarts at the last stop() that returned normally
    handlersInstalled,  \* startServer registered SIGINT/SIGTERM handlers
    exited,             \* how the node process ended, "running" if not
    req,                \* the tool request being served
    cfgIn, cfgEnv, cfgOut, cfgPc    \* a run of config.ts on one input

lifeVars == <<now, configPath, toolboxClient, toolboxTransport, toolboxProcess,
              files, proc, handshaken, clientCloses, transportCloses, kills,
              unlinks, frontend, startPc, nStarts, attempts, waits, stops,
              stopCalls, cleanStopAt, handlersInstalled, exited>>
optVars == <<stdio, prebuiltType, remoteTools>>
cfgVars == <<cfgIn, cfgEnv, cfgOut, cfgPc>>
vars == <<optVars, lifeVars, req, cfgVars>>

\* ===================================================== process supervisor

NoStop == [pc |-> "idle", origin |-> "none", epoch |-> 0, fresh |-> FALSE]

\* The channel of client c still reaches a live engine.
Connected(c) ==
    /\ c \in handshaken
    /\ clientCloses[c] = 0
    /\ transportCloses[c] = 0
    /\ proc[c] = "alive"

LifeInit ==
    /\ now = 0
    /\ configPath = 0 /\ toolboxClient = 0
    /\ toolboxTransport = 0 /\ toolboxProcess = 0
    /\ files = {}
    /\ proc = [i \in Ids |-> "none"]
    /\ handshaken = {}
    /\ clientCloses = [i \in Ids |-> 0]
    /\ transportCloses = [i \in Ids |-> 0]
    /\ kills = [i \in Ids |-> 0]
    /\ unlinks = [p \in Paths |-> 0]
    /\ frontend = "none"
    /\ startPc = "idle" /\ nStarts = 0 /\ attempts = 0 /\ waits = 0
    /\ stops = [j \in StopSlots |-> NoStop]
    /\ stopCalls = 0 /\ cleanStopAt = 0
    /\ handlersInstalled = FALSE
    /\ exited = "running"

\* startToolboxClient up to its first await: in stdio mode client.connect
\* makes the transport spawn the engine; in http mode the engine is spawned
\* here and waitForHttpServer opens its first socket.
startToolboxClient(id) ==
    IF stdio
    THEN /\ proc' = [proc EXCEPT ![id] = "alive"]
         /\ startPc' = "handshake"
         /\ attempts' = 0 /\ waits' = 0
         /\ UNCHANGED toolboxProcess
    ELSE /\ proc' = [proc EXCEPT ![id] = "alive"]
         /\ toolboxProcess' = id
         /\ startPc' = "poll"
         /\ attempts' = 1 /\ waits' = 0

\* start(): configPath from Date.now(), writeFileSync (written = FALSE when
\* it throws), then startToolboxClient.
start(t, written) ==
    /\ exited = "running" /\ startPc = "idle"
    /\ t \in Paths /\ t >= now /\ t <= now + 1
    /\ now' = t
    /\ configPath' = t
    /\ nStarts' = nStarts + 1
    /\ IF written
       THEN /\ files' = files \cup {t}
            /\ startToolboxClient(nStarts + 1)
       ELSE /\ startPc' = "failed"
            /\ UNCHANGED <<files, proc, toolboxProcess, attempts, waits>>
    /\ UNCHANGED <<toolboxClient, toolboxTransport, handshaken, clientCloses,
                   transportCloses, kills, unlinks, frontend, stops, stopCalls,
                   cleanStopAt, handlersInstalled, exited>>

pollUnchanged == <<now, configPath, toolboxClient, toolboxTransport,
                   toolboxProcess, files, proc, handshaken, clientCloses,
                   transportCloses, kills, unlinks, frontend, nStarts, stops,
                   stopCalls, cleanStopAt, handlersInstalled, exited>>

\* waitForHttpServer: the socket emits 'connect'; the loop returns and
\* startToolboxClient goes on to client.connect(httpTransport).
poll_connect ==
    /\ exited = "running" /\ startPc = "poll"
    /\ startPc' = "handshake"
    /\ UNCHANGED <<attempts, waits>>
    /\ UNCHANGED pollUnchanged

\* waitForHttpServer: the socket emits 'error'; the loop awaits delay(250).
poll_error ==
    /\ exited = "running" /\ startPc = "poll"
    /\ startPc' = "delay"
    /\ UNCHANGED <<attempts, waits>>
    /\ UNCHANGED pollUnchanged

\* waitForHttpServer: the socket emits neither event (no timeout is set on
\* it), so the promise of this attempt never settles.
poll_silent ==
    /\ exited = "running" /\ startPc = "poll"
    /\ startPc' = "hung"
    /\ UNCHANGED <<attempts, waits>>
    /\ UNCHANGED pollUnchanged

\* waitForHttpServer: delay(250) is over; next attempt, or the throw after
\* the loop.
poll_delayed ==
    /\ exited = "running" /\ startPc = "delay"
    /\ waits' = waits + 1
    /\ IF attempts < maxAttempts
       THEN attempts' = attempts + 1 /\ startPc' = "poll"
       ELSE attempts' = attempts /\ startPc' = "failed"
    /\ UNCHANGED pollUnchanged

\* client.connect resolves: the channel is published, start() goes on to
\* server.connect(new StdioServerTransport()).  The counts of the poll
\* are kept until the handshake that follows it is over.
handshake_ok ==
    /\ exited = "running" /\ startPc = "handshake"
    /\ proc[nStarts] = "alive"
    /\ toolboxTransport' = nStarts
    /\ toolboxClient' = nStarts
    /\ handshaken' = handshaken \cup {nStarts}
    /\ startPc' = "connect"
    /\ attempts' = 0 /\ waits' = 0
    /\ UNCHANGED <<now, configPath, toolboxProcess, files, proc, clientCloses,
                   transportCloses, kills, unlinks, frontend, nStarts,
                   stops, stopCalls, cleanStopAt, handlersInstalled, exited>>

\* client.connect rejects.  In stdio mode the SDK owns the child it spawned
\* and may or may not have reaped it (reaped); in http mode the child of
\* spawn() is left as it is.
handshake_fail(reaped) ==
    /\ exited = "running" /\ startPc = "handshake"
    /\ startPc' = "failed"
    /\ proc' = IF stdio /\ reaped /\ proc[nStarts] = "alive"
               THEN [proc EXCEPT ![nStarts] = "killed"] ELSE proc
    /\ attempts' = 0 /\ waits' = 0
    /\ UNCHANGED <<now, configPath, toolboxClient, toolboxTransport,
                   toolboxProcess, files, handshaken, clientCloses,
                   transportCloses, kills, unlinks, frontend, nStarts,
                   stops, stopCalls, cleanStopAt, handlersInstalled, exited>>

\* server.connect resolves: start() returns; startServer then registers the
\* signal handlers.
connect_ok ==
    /\ exited = "running" /\ startPc = "connect"
    /\ frontend' = "connected"
    /\ startPc' = "idle"
    /\ handlersInstalled' = TRUE
    /\ UNCHANGED <<now, configPath, toolboxClient, toolboxTransport,
                   toolboxProcess, files, proc, handshaken, clientCloses,
                   transportCloses, kills, unlinks, nStarts, attempts, waits,
                   stops, stopCalls, cleanStopAt, exited>>

\* server.connect rejects: start() rejects.
connect_fail ==
    /\ exited = "running" /\ startPc = "connect"
    /\ startPc' = "failed"
    /\ UNCHANGED <<now, configPath, toolboxClient, toolboxTransport,
                   toolboxProcess, files, proc, handshaken, clientCloses,
                   transportCloses, kills, unlinks, frontend, nStarts,
                   attempts, waits, stops, stopCalls, cleanStopAt,
                   handlersInstalled, exited>>

\* main(): the rejection of startServer reaches the catch, process.exit(1).
main_catch ==
    /\ exited = "running" /\ startPc = "failed"
    /\ exited' = "exit1"
    /\ UNCHANGED <<now, configPath, toolboxClient, toolboxTransport,
                   toolboxProcess, files, proc, handshaken, clientCloses,
                   transportCloses, kills, unlinks, frontend, startPc, nStarts,
                   attempts, waits, stops, stopCalls, cleanStopAt,
                   handlersInstalled>>

\* The engine process ends on its own.
proc_exit(id) ==
    /\ exited = "running"
    /\ proc[id] = "alive"
    /\ proc' = [proc EXCEPT ![id] = "exited"]
    /\ UNCHANGED <<now, configPath, toolboxClient, toolboxTransport,
                   toolboxProcess, files, handshaken, clientCloses,
                   transportCloses, kills, unlinks, frontend, startPc, nStarts,
                   attempts, waits, stops, stopCalls, cleanStopAt,
                   handlersInstalled, exited>>

\* ------------------------------------------------------------------ stop()

\* Closing a stdio transport ends the child the transport spawned; an http
\* transport has no hold on the child of spawn().
closeChannel(id) ==
    IF stdio /\ proc[id] = "alive" THEN [proc EXCEPT ![id] = "killed"] ELSE proc

\* stop(): `this.toolboxClient.close()` is called and awaited.
stop_closeClient(j, rec) ==
    /\ clientCloses' = [clientCloses EXCEPT ![toolboxClient] = @ + 1]
    /\ proc' = closeChannel(toolboxClient)
    /\ stops' = [stops EXCEPT ![j] = [rec EXCEPT !.pc = "client"]]
    /\ UNCHANGED <<toolboxClient, toolboxTransport, toolboxProcess, configPath,
                   files, transportCloses, kills, unlinks, frontend>>

\* stop(): `this.toolboxTransport.close()` is called and awaited; client is
\* the value this.toolboxClient has by then.
stop_closeTransport(j, rec, client) ==
    /\ transportCloses' = [transportCloses EXCEPT ![toolboxTransport] = @ + 1]
    /\ proc' = closeChannel(toolboxTransport)
    /\ toolboxClient' = client
    /\ stops' = [stops EXCEPT ![j] = [rec EXCEPT !.pc = "transport"]]
    /\ UNCHANGED <<toolboxTransport, toolboxProcess, configPath, files,
                   clientCloses, kills, unlinks, frontend>>

\* A stop() that kills the child and forgets to clear this.toolboxProcess.
stop_release_keepHandle(j, rec, client, transport, deleted) ==
    /\ toolboxClient' = client
    /\ toolboxTransport' = transport
    /\ kills' = IF toolboxProcess # 0
                THEN [kills EXCEPT ![toolboxProcess] = @ + 1] ELSE kills
    /\ proc' = IF toolboxProcess # 0 /\ proc[toolboxProcess] = "alive"
               THEN [proc EXCEPT ![toolboxProcess] = "killed"] ELSE proc
    /\ toolboxProcess' = toolboxProcess
    /\ unlinks' = IF configPath # 0
                  THEN [unlinks EXCEPT ![configPath] = @ + 1] ELSE unlinks
    /\ files' = IF configPath # 0 /\ deleted THEN files \ {configPath} ELSE files
    /\ configPath' = 0
    /\ frontend' = IF frontend = "connected" THEN "closed" ELSE frontend
    /\ stops' = [stops EXCEPT ![j] = [rec EXCEPT !.pc = "server"]]
    /\ UNCHANGED <<clientCloses, transportCloses>>

\* stop(): kill the child, unlink the config file (deleted = FALSE when
\* unlinkSync throws into the empty catch), call server.close() and await it.
stop_release(j, rec, client, transport, deleted) ==
    /\ toolboxClient' = client
    /\ toolboxTransport' = transport
    /\ kills' = IF toolboxProcess # 0
                THEN [kills EXCEPT ![toolboxProcess] = @ + 1] ELSE kills
    /\ proc' = IF toolboxProcess # 0 /\ proc[toolboxProcess] = "alive"
               THEN [proc EXCEPT ![toolboxProcess] = "killed"] ELSE proc
    /\ toolboxProcess' = 0
    /\ unlinks' = IF configPath # 0
                  THEN [unlinks EXCEPT ![configPath] = @ + 1] ELSE unlinks
    /\ files' = IF configPath # 0 /\ deleted THEN files \ {configPath} ELSE files
    /\ configPath' = 0
    /\ frontend' = IF frontend = "connected" THEN "closed" ELSE frontend
    /\ stops' = [stops EXCEPT ![j] = [rec EXCEPT !.pc = "server"]]
    /\ UNCHANGED <<clientCloses, transportCloses>>

stopUnchanged == <<now, handshaken, startPc, nStarts, attempts, waits,
                   cleanStopAt, handlersInstalled, exited>>

\* stop() is called (origin: "api" for an explicit call, "signal" for the
\* SIGINT/SIGTERM handlers) and runs to its first await.
stop(j, origin, deleted) ==
    /\ exited = "running"
    /\ stops[j].pc = "idle"
    /\ \A k \in StopSlots : k < j => stops[k].pc # "idle"
    /\ stopCalls < MaxStopCalls
    /\ stopCalls' = stopCalls + 1
    /\ LET rec == [pc |-> "idle", origin |-> origin,
                   epoch |-> IF startPc = "idle" THEN nStarts ELSE 0,
                   fresh |-> nStarts > 0 /\ cleanStopAt = nStarts
                             /\ startPc = "idle"]
       IN  IF toolboxClient # 0 THEN stop_closeClient(j, rec)
           ELSE IF toolboxTransport # 0
                THEN stop_closeTransport(j, rec, toolboxClient)
                ELSE stop_release(j, rec, toolboxClient, toolboxTransport,
                                  deleted)
    /\ UNCHANGED stopUnchanged

\* stop() resumes after `await this.toolboxClient.close()`; ok = FALSE when
\* the close rejected, which rejects stop().
stop_afterClient(j, ok, deleted) ==
    /\ exited = "running"
    /\ stops[j].pc = "client"
    /\ IF ~ok
       THEN /\ stops' = [stops EXCEPT ![j].pc = "threw"]
            /\ UNCHANGED <<toolboxClient, toolboxTransport, toolboxProcess,
                           configPath, files, proc, clientCloses,
                           transportCloses, kills, unlinks, frontend>>
       ELSE IF toolboxTransport # 0
            THEN stop_closeTransport(j, stops[j], 0)
            ELSE stop_release(j, stops[j], 0, toolboxTransport, deleted)
    /\ UNCHANGED <<stopCalls>>
    /\ UNCHANGED stopUnchanged

\* stop() resumes after `await this.toolboxTransport.close()`.
stop_afterTransport(j, ok, deleted) ==
    /\ exited = "running"
    /\ stops[j].pc = "transport"
    /\ IF ~ok
       THEN /\ stops' = [stops EXCEPT ![j].pc = "threw"]
            /\ UNCHANGED <<toolboxClient, toolboxTransport, toolboxProcess,
                           configPath, files, proc, clientCloses,
                           transportCloses, kills, unlinks, frontend>>
       ELSE stop_release(j, stops[j], toolboxClient, 0, deleted)
    /\ UNCHANGED <<stopCalls>>
    /\ UNCHANGED stopUnchanged

\* stop() resumes after `await this.server.close()` and returns.
stop_afterServer(j) ==
    /\ exited = "running"
    /\ stops[j].pc = "server"
    /\ stops' = [stops EXCEPT ![j].pc = "done"]
    /\ UNCHANGED <<toolboxClient, toolboxTransport, toolboxProcess, configPath,
                   files, proc, clientCloses, transportCloses, kills, unlinks,
                   frontend, stopCalls>>
    /\ UNCHANGED stopUnchanged

\* An explicit stop() call hands its outcome back to its caller.
stop_return(j) ==
    /\ exited = "running"
    /\ stops[j].origin = "api"
    /\ stops[j].pc \in {"done", "threw"}
    /\ cleanStopAt' = IF stops[j].pc = "done" /\ stops[j].epoch = nStarts
                         /\ startPc = "idle" /\ nStarts > 0
                      THEN nStarts ELSE cleanStopAt
    /\ stops' = [stops EXCEPT ![j] = NoStop]
    /\ UNCHANGED <<now, configPath, toolboxClient, toolboxTransport,
                   toolboxProcess, files, proc, handshaken, clientCloses,
                   transportCloses, kills, unlinks, frontend, startPc, nStarts,
                   attempts, waits, stopCalls, handlersInstalled, exited>>

\* startServer's signal handler: after `await server.stop()`,
\* process.exit(0); a rejected stop() is an unhandled rejection, which ends
\* the process with code 1.
signal_exit(j) ==
    /\ exited = "running"
    /\ stops[j].origin = "signal"
    /\ stops[j].pc \in {"done", "threw"}
    /\ exited' = IF stops[j].pc = "done" THEN "exit0" ELSE "exit1"
    /\ UNCHANGED <<now, configPath, toolboxClient, toolboxTransport,
                   toolboxProcess, files, proc, handshaken, clientCloses,
                   transportCloses, kills, unlinks, frontend, startPc, nStarts,
                   attempts, waits, stops, stopCalls, cleanStopAt,
                   handlersInstalled>>

\* SIGINT or SIGTERM arrives: the handler of startServer calls stop() once
\* it is registered; before that the default disposition ends the process.
signal(j, deleted) ==
    IF handlersInstalled
    THEN stop(j, "signal", deleted)
    ELSE /\ exited = "running"
         /\ j = 1
         /\ nStarts > 0
         /\ exited' = "signal"
         /\ UNCHANGED <<now, configPath, toolboxClient, toolboxTransport,
                        toolboxProcess, files, proc, handshaken, clientCloses,
                        transportCloses, kills, unlinks, frontend, startPc,
                        nStarts, attempts, waits, stops, stopCalls, cleanStopAt,
                        handlersInstalled>>

\* ================================================ convenience tool catalog

\* JavaScript values of `arguments`: absent, or an object (a function from
\* its keys to values).
EmptyObj == [k \in {} |-> ""]
Undefined == [t |-> "undefined", v |-> EmptyObj]
Obj(o) == [t |-> "object", v |-> o]

\* A reading of args[k] that turns a missing key into text.
Str_undefined(a, k) == IF k \in DOMAIN a THEN a[k] ELSE "undefined"

\* args[k] for a string-valued key; "" stands for every falsy value, which
\* is all the handlers tell apart before they use it.
Str(a, k) == IF k \in DOMAIN a THEN a[k] ELSE ""

\* The character ` , which has no TLA+ string literal.
Backtick == "<backtick>"

\* `schema || 'public'`
OrPublic(schema) == IF schema = "" THEN "public" ELSE schema

formatTableWithSchema(table, schema, dbType) ==
    IF schema = "" \/ schema = "public"
    THEN CASE dbType = "postgres" -> "\"" \o table \o "\""
           [] dbType = "mysql" -> Backtick \o table \o Backtick
           [] dbType = "mssql" -> "[" \o table \o "]"
           [] OTHER -> "\"" \o table \o "\""
    ELSE CASE dbType = "postgres" ->
                "\"" \o schema \o "\".\"" \o table \o "\""
           [] dbType = "mssql" -> "[" \o schema \o "].[" \o table \o "]"
           [] OTHER -> "\"" \o schema \o "\".\"" \o table \o "\""

SQL_listTables(key, schema) ==
    CASE key = "postgres" ->
        "SELECT table_name FROM information_schema.tables WHERE table"
        \o "_schema = '" \o OrPublic(schema) \o "' ORDER BY table_name"
      [] key = "mysql" ->
        "SHOW TABLES"
      [] key = "sqlite" ->
        "SELECT name FROM sqlite_master WHERE type='table' ORDER BY name"
      [] key = "mssql" ->
        "SELECT TABLE_NAME FROM INFORMATION_SCHEMA.TABLES WHERE TABLE"
        \o "_TYPE = 'BASE TABLE'"
        \o (IF schema # "" THEN " AND TABLE_SCHEMA = '" \o schema \o "'" ELSE "")
        \o " ORDER BY TABLE_NAME"
      [] OTHER ->
        "SELECT table_name FROM information_schema.tables WHERE table"
        \o "_schema = '" \o OrPublic(schema) \o "' ORDER BY table_name"

SQL_listSchemas(key) ==
    CASE key = "postgres" ->
        "SELECT schema_name FROM information_schema.schemata WHERE sc"
        \o "hema_name NOT IN ('pg_catalog', 'information_schema', 'pg_to"
        \o "ast') ORDER BY schema_name"
      [] key = "mysql" ->
        "SHOW DATABASES"
      [] key = "sqlite" ->
        "SELECT 'main' as schema_name"
      [] key = "mssql" ->
        "SELECT SCHEMA_NAME FROM INFORMATION_SCHEMA.SCHEMATA WHERE SC"
        \o "HEMA_NAME NOT IN ('guest', 'INFORMATION_SCHEMA', 'sys') ORDE"
        \o "R BY SCHEMA_NAME"
      [] OTHER ->
        "SELECT schema_name FROM information_schema.schemata ORDER BY"
        \o " schema_name"

SQL_listDatabases(key) ==
    CASE key = "postgres" ->
        "SELECT datname FROM pg_database WHERE datistemplate = false "
        \o "ORDER BY datname"
      [] key = "mysql" ->
        "SHOW DATABASES"
      [] key = "sqlite" ->
        "PRAGMA database_list"
      [] key = "mssql" ->
        "SELECT name FROM sys.databases ORDER BY name"
      [] OTHER ->
        "SELECT datname FROM pg_database ORDER BY datname"

SQL_describeTable(key, table, schema) ==
    CASE key = "postgres" ->
        "SELECT column_name, data_type, is_nullable, column_default F"
        \o "ROM information_schema.columns WHERE table_schema = '"
        \o OrPublic(schema) \o "' AND table_name = '" \o table
        \o "' ORDER BY ordinal_position"
      [] key = "mysql" ->
        "DESCRIBE " \o table
      [] key = "sqlite" ->
        "PRAGMA table_info(" \o table \o ")"
      [] key = "mssql" ->
        "SELECT COLUMN_NAME, DATA_TYPE, IS_NULLABLE, COLUMN_DEFAULT F"
        \o "ROM INFORMATION_SCHEMA.COLUMNS WHERE TABLE_NAME = '" \o table
        \o "'"
        \o (IF schema # "" THEN " AND TABLE_SCHEMA = '" \o schema \o "'" ELSE "")
        \o " ORDER BY ORDINAL_POSITION"
      [] OTHER ->
        "SELECT column_name, data_type, is_nullable FROM information_"
        \o "schema.columns WHERE table_schema = '" \o OrPublic(schema)
        \o "' AND table_name = '" \o table \o "'"

SQL_previewTable(key, table, limit, schema) ==
    CASE key = "postgres" ->
        "SELECT * FROM " \o formatTableWithSchema(table, schema, "postgres")
        \o " LIMIT " \o ToString(limit)
      [] key = "mysql" ->
        "SELECT * FROM " \o Backtick \o table \o Backtick \o " LIMIT "
        \o ToString(limit)
      [] key = "sqlite" ->
        "SELECT * FROM \"" \o table \o "\" LIMIT " \o ToString(limit)
      [] key = "mssql" ->
        "SELECT TOP " \o ToString(limit) \o " * FROM "
        \o formatTableWithSchema(table, schema, "mssql")
      [] OTHER ->
        "SELECT * FROM " \o formatTableWithSchema(table, schema, "postgres")
        \o " LIMIT " \o ToString(limit)

SQL_countRows(key, table, schema) ==
    CASE key = "postgres" ->
        "SELECT COUNT(*) as row_count FROM "
        \o formatTableWithSchema(table, schema, "postgres")
      [] key = "mysql" ->
        "SELECT COUNT(*) as row_count FROM " \o Backtick \o table \o Backtick
      [] key = "sqlite" ->
        "SELECT COUNT(*) as row_count FROM \"" \o table \o "\""
      [] key = "mssql" ->
        "SELECT COUNT(*) as row_count FROM "
        \o formatTableWithSchema(table, schema, "mssql")
      [] OTHER ->
        "SELECT COUNT(*) as row_count FROM "
        \o formatTableWithSchema(table, schema, "postgres")

SQL_tableStats(key, table, schema) ==
    CASE key = "postgres" ->
        "SELECT\n        (SELECT COUNT(*) FROM information_schema.col"
        \o "umns WHERE table_schema = '" \o OrPublic(schema)
        \o "' AND table_name = '" \o table
        \o "') as column_count,\n        (SELECT COUNT(*) FROM "
        \o formatTableWithSchema(table, schema, "postgres")
        \o ") as row_count"
      [] key = "mysql" ->
        "SELECT\n        (SELECT COUNT(*) FROM information_schema.col"
        \o "umns WHERE table_name = '" \o table
        \o "') as column_count,\n        (SELECT COUNT(*) FROM " \o Backtick
        \o table \o Backtick \o ") as row_count"
      [] key = "sqlite" ->
        "SELECT\n        (SELECT COUNT(*) FROM pragma_table_info('" \o table
        \o "')) as column_count,\n        (SELECT COUNT(*) FROM \"" \o table
        \o "\") as row_count"
      [] key = "mssql" ->
        "SELECT\n        (SELECT COUNT(*) FROM INFORMATION_SCHEMA.COL"
        \o "UMNS WHERE TABLE_NAME = '" \o table \o "'"
        \o (IF schema # "" THEN " AND TABLE_SCHEMA = '" \o schema \o "'" ELSE "")
        \o ") as column_count,\n        (SELECT COUNT(*) FROM "
        \o formatTableWithSchema(table, schema, "mssql") \o ") as row_count"
      [] OTHER ->
        "SELECT COUNT(*) as row_count FROM "
        \o formatTableWithSchema(table, schema, "postgres")

SQL_schemaInfo(key, schema) ==
    CASE key = "postgres" ->
        "SELECT\n        '" \o schema
        \o "' as schema_name,\n        (SELECT COUNT(*) FROM information"
        \o "_schema.tables WHERE table_schema = '" \o schema
        \o "' AND table_type = 'BASE TABLE') as table_count,\n        (S"
        \o "ELECT COUNT(*) FROM information_schema.views WHERE table_sch"
        \o "ema = '" \o schema
        \o "') as view_count,\n        (SELECT COUNT(*) FROM information"
        \o "_schema.routines WHERE routine_schema = '" \o schema
        \o "') as routine_count"
      [] key = "mssql" ->
        "SELECT\n        '" \o schema
        \o "' as schema_name,\n        (SELECT COUNT(*) FROM INFORMATION"
        \o "_SCHEMA.TABLES WHERE TABLE_SCHEMA = '" \o schema
        \o "' AND TABLE_TYPE = 'BASE TABLE') as table_count,\n        (S"
        \o "ELECT COUNT(*) FROM INFORMATION_SCHEMA.VIEWS WHERE TABLE_SCH"
        \o "EMA = '" \o schema
        \o "') as view_count,\n        (SELECT COUNT(*) FROM INFORMATION"
        \o "_SCHEMA.ROUTINES WHERE ROUTINE_SCHEMA = '" \o schema
        \o "') as routine_count"
      [] OTHER ->
        "SELECT '" \o schema
        \o "' as schema_name, 0 as table_count, 0 as view_count, 0 as ro"
        \o "utine_count"

SQL_searchTables(key, pattern, schema) ==
    CASE key = "postgres" ->
        "SELECT table_name FROM information_schema.tables WHERE table"
        \o "_schema = '" \o schema \o "' AND table_name ILIKE '%" \o pattern
        \o "%' ORDER BY table_name"
      [] key = "mysql" ->
        "SHOW TABLES LIKE '%" \o pattern \o "%'"
      [] key = "sqlite" ->
        "SELECT name FROM sqlite_master WHERE type='table' AND name L"
        \o "IKE '%" \o pattern \o "%' ORDER BY name"
      [] key = "mssql" ->
        "SELECT TABLE_NAME FROM INFORMATION_SCHEMA.TABLES WHERE TABLE"
        \o "_TYPE = 'BASE TABLE' AND TABLE_SCHEMA = '" \o schema
        \o "' AND TABLE_NAME LIKE '%" \o pattern \o "%' ORDER BY TABLE_NAME"
      [] OTHER ->
        "SELECT table_name FROM information_schema.tables WHERE table"
        \o "_schema = '" \o schema \o "' AND table_name LIKE '%" \o pattern
        \o "%' ORDER BY table_name"

SQL_listColumns(key, table, schema) ==
    CASE key = "postgres" ->
        "SELECT column_name FROM information_schema.columns WHERE tab"
        \o "le_schema = '" \o schema \o "' AND table_name = '" \o table
        \o "' ORDER BY ordinal_position"
      [] key = "mysql" ->
        "SELECT COLUMN_NAME FROM INFORMATION_SCHEMA.COLUMNS WHERE TAB"
        \o "LE_NAME = '" \o table \o "' ORDER BY ORDINAL_POSITION"
      [] key = "sqlite" ->
        "SELECT name FROM pragma_table_info('" \o table \o "')"
      [] key = "mssql" ->
        "SELECT COLUMN_NAME FROM INFORMATION_SCHEMA.COLUMNS WHERE TAB"
        \o "LE_SCHEMA = '" \o schema \o "' AND TABLE_NAME = '" \o table
        \o "' ORDER BY ORDINAL_POSITION"
      [] OTHER ->
        "SELECT column_name FROM information_schema.columns WHERE tab"
        \o "le_schema = '" \o schema \o "' AND table_name = '" \o table \o "'"

SQL_sampleDistinct(key, table, column, limit, schema) ==
    CASE key = "postgres" ->
        "SELECT DISTINCT \"" \o column \o "\" FROM "
        \o formatTableWithSchema(table, schema, "postgres") \o " LIMIT "
        \o ToString(limit)
      [] key = "mysql" ->
        "SELECT DISTINCT " \o Backtick \o column \o Backtick \o " FROM "
        \o Backtick \o table \o Backtick \o " LIMIT " \o ToString(limit)
      [] key = "sqlite" ->
        "SELECT DISTINCT \"" \o column \o "\" FROM \"" \o table \o "\" LIMIT "
        \o ToString(limit)
      [] key = "mssql" ->
        "SELECT DISTINCT TOP " \o ToString(limit) \o " [" \o column
        \o "] FROM " \o formatTableWithSchema(table, schema, "mssql")
      [] OTHER ->
        "SELECT DISTINCT \"" \o column \o "\" FROM "
        \o formatTableWithSchema(table, schema, "postgres") \o " LIMIT "
        \o ToString(limit)

SQL_listViews(key, schema) ==
    CASE key = "postgres" ->
        "SELECT table_name as view_name FROM information_schema.views"
        \o " WHERE table_schema = '" \o schema \o "' ORDER BY table_name"
      [] key = "mysql" ->
        "SELECT TABLE_NAME as view_name FROM INFORMATION_SCHEMA.VIEWS"
        \o " ORDER BY TABLE_NAME"
      [] key = "sqlite" ->
        "SELECT name as view_name FROM sqlite_master WHERE type='view"
        \o "' ORDER BY name"
      [] key = "mssql" ->
        "SELECT TABLE_NAME as view_name FROM INFORMATION_SCHEMA.VIEWS"
        \o " WHERE TABLE_SCHEMA = '" \o schema \o "' ORDER BY TABLE_NAME"
      [] OTHER ->
        "SELECT table_name as view_name FROM information_schema.views"
        \o " WHERE table_schema = '" \o schema \o "' ORDER BY table_name"

SQL_listIndexes(key, table, schema) ==
    CASE key = "postgres" ->
        "SELECT indexname, indexdef FROM pg_indexes WHERE schemaname = '"
        \o schema \o "' AND tablename = '" \o table \o "' ORDER BY indexname"
      [] key = "mysql" ->
        "SHOW INDEX FROM " \o Backtick \o table \o Backtick
      [] key = "sqlite" ->
        "SELECT name, sql FROM sqlite_master WHERE type='index' AND t"
        \o "bl_name='" \o table \o "' ORDER BY name"
      [] key = "mssql" ->
        "SELECT i.name as index_name, i.type_desc, i.is_unique, i.is_"
        \o "primary_key\n                 FROM sys.indexes i\n          "
        \o "       INNER JOIN sys.tables t ON i.object_id = t.object_id"
        \o "\n                 INNER JOIN sys.schemas s ON t.schema_id ="
        \o " s.schema_id\n                 WHERE s.name = '" \o schema
        \o "' AND t.name = '" \o table
        \o "'\n                 ORDER BY i.name"
      [] OTHER ->
        "SELECT indexname FROM pg_indexes WHERE schemaname = '" \o schema
        \o "' AND tablename = '" \o table \o "'"

SQL_listConstraints(key, table, schema) ==
    CASE key = "postgres" ->
        "SELECT con.conname as constraint_name,\n                    "
        \o "    con.contype as constraint_type,\n                       "
        \o " pg_get_constraintdef(con.oid) as definition\n              "
        \o "   FROM pg_constraint con\n                 JOIN pg_class re"
        \o "l ON rel.oid = con.conrelid\n                 JOIN pg_namesp"
        \o "ace nsp ON nsp.oid = rel.relnamespace\n                 WHER"
        \o "E nsp.nspname = '" \o schema \o "' AND rel.relname = '" \o table
        \o "'\n                 ORDER BY con.conname"
      [] key = "mysql" ->
        "SELECT CONSTRAINT_NAME, CONSTRAINT_TYPE\n                 FR"
        \o "OM INFORMATION_SCHEMA.TABLE_CONSTRAINTS\n                 WH"
        \o "ERE TABLE_NAME = '" \o table
        \o "'\n                 ORDER BY CONSTRAINT_NAME"
      [] key = "sqlite" ->
        "SELECT 'fk_' || id as constraint_name, 'FOREIGN KEY' as cons"
        \o "traint_type,\n                        'REFERENCES ' || \"tab"
        \o "le\" || '(' || \"to\" || ')' as definition\n                "
        \o " FROM pragma_foreign_key_list('" \o table \o "')"
      [] key = "mssql" ->
        "SELECT CONSTRAINT_NAME, CONSTRAINT_TYPE\n                 FR"
        \o "OM INFORMATION_SCHEMA.TABLE_CONSTRAINTS\n                 WH"
        \o "ERE TABLE_SCHEMA = '" \o schema \o "' AND TABLE_NAME = '" \o table
        \o "'\n                 ORDER BY CONSTRAINT_NAME"
      [] OTHER ->
        "SELECT constraint_name, constraint_type FROM information_sch"
        \o "ema.table_constraints WHERE table_schema = '" \o schema
        \o "' AND table_name = '" \o table \o "'"


\* A normalization that knows no families: every dialect is its own key.
normalizeDbType_raw(dbType) ==
    IF dbType = "" THEN "default" ELSE dbType

normalizeDbType(dbType) ==
    IF dbType = "" THEN "default"
    ELSE IF dbType \in {"postgres", "cloud-sql-postgres", "alloydb-pg"}
    THEN "postgres"
    ELSE IF dbType \in {"mysql", "cloud-sql-mysql"} THEN "mysql"
    ELSE IF dbType = "sqlite" THEN "sqlite"
    ELSE IF dbType = "mssql" THEN "mssql"
    ELSE "default"

\* The keys SQL_TEMPLATES[templateName] has.
SQL_TEMPLATES(templateName) ==
    IF templateName = "schemaInfo" THEN {"postgres", "mssql", "default"}
    ELSE {"postgres", "mysql", "sqlite", "mssql", "default"}

\* getSQL: templates[normalizedType] ?? templates.default, applied to a.
getSQL(templateName, dbType, a) ==
    LET n == normalizeDbType(dbType)
        key == IF n \in SQL_TEMPLATES(templateName) THEN n ELSE "default"
    IN  CASE templateName = "listTables" -> SQL_listTables(key, a.schema)
          [] templateName = "listSchemas" -> SQL_listSchemas(key)
          [] templateName = "listDatabases" -> SQL_listDatabases(key)
          [] templateName = "describeTable" ->
                SQL_describeTable(key, a.table, a.schema)
          [] templateName = "previewTable" ->
                SQL_previewTable(key, a.table, a.limit, a.schema)
          [] templateName = "countRows" ->
                SQL_countRows(key, a.table, a.schema)
          [] templateName = "tableStats" ->
                SQL_tableStats(key, a.table, a.schema)
          [] templateName = "schemaInfo" -> SQL_schemaInfo(key, a.schema)

Min(a, b) == IF a < b THEN a ELSE b
Max(a, b) == IF a > b THEN a ELSE b

\* Math.min(Math.max(1, (args.limit as number) || dflt), 100)
clampLimit(a, dflt) ==
    LET given == IF "limit" \in DOMAIN a THEN a.limit ELSE 0
    IN  Min(Max(1, IF given = 0 THEN dflt ELSE given), 100)

BUILTIN_TOOLS ==
    << [name |-> "list_databases", required |-> <<>>],
       [name |-> "list_schemas", required |-> <<>>],
       [name |-> "schema_info", required |-> <<>>],
       [name |-> "list_tables", required |-> <<>>],
       [name |-> "describe_table", required |-> <<"table">>],
       [name |-> "preview_table", required |-> <<"table">>],
       [name |-> "count_rows", required |-> <<"table">>],
       [name |-> "table_stats", required |-> <<"table">>],
       [name |-> "search_tables", required |-> <<"pattern">>],
       [name |-> "list_columns", required |-> <<"table">>],
       [name |-> "sample_distinct", required |-> <<"table", "column">>],
       [name |-> "list_views", required |-> <<>>],
       [name |-> "list_indexes", required |-> <<"table">>],
       [name |-> "list_constraints", required |-> <<"table">>] >>

BuiltinNames == {BUILTIN_TOOLS[i].name : i \in DOMAIN BUILTIN_TOOLS}

\* A tool definition as listTools shows it.
ToolDef(name, origin) == [name |-> name, definedBy |-> origin]

getBuiltinToolDefinitions ==
    [i \in DOMAIN BUILTIN_TOOLS |-> ToolDef(BUILTIN_TOOLS[i].name, "builtin")]

\* The catalog is never consulted: every name goes to the engine.
findBuiltinTool_never(name) == FALSE

\* findBuiltinTool(name) is not undefined.
findBuiltinTool(name) == name \in BuiltinNames

Envelope(text, isError) == [text |-> text, isError |-> isError]

\* What a handler does before it awaits: an envelope of its own, or the
\* statement it hands to executeSQL.
Early(text) == [early |-> TRUE, text |-> text, sql |-> ""]
Run(sql) == [early |-> FALSE, text |-> "", sql |-> sql]

\* A remote call that passes the statement under another key.
executeSQL_statement(sql) ==
    [name |-> "execute_sql", arguments |-> Obj([statement |-> sql])]

\* executeSQL: the remote call it issues.
executeSQL(sql) == [name |-> "execute_sql", arguments |-> Obj([sql |-> sql])]

handler(name, a, dbType) ==
    LET table == Str(a, "table")
        schema == Str(a, "schema")
        column == Str(a, "column")
        pattern == Str(a, "pattern")
        n == normalizeDbType(dbType)
        noTable == Early("Error: table name is required")
    IN  CASE name = "list_databases" ->
                Run(getSQL("listDatabases", dbType, [schema |-> schema]))
          [] name = "list_schemas" ->
                Run(getSQL("listSchemas", dbType, [schema |-> schema]))
          [] name = "schema_info" ->
                Run(getSQL("schemaInfo", dbType,
                           [schema |-> OrPublic(schema)]))
          [] name = "list_tables" ->
                Run(getSQL("listTables", dbType, [schema |-> schema]))
          [] name = "describe_table" ->
                IF table = "" THEN noTable
                ELSE Run(getSQL("describeTable", dbType,
                                [table |-> table, schema |-> schema]))
          [] name = "preview_table" ->
                IF table = "" THEN noTable
                ELSE Run(getSQL("previewTable", dbType,
                                [table |-> table, schema |-> schema,
                                 limit |-> clampLimit(a, 5)]))
          [] name = "count_rows" ->
                IF table = "" THEN noTable
                ELSE Run(getSQL("countRows", dbType,
                                [table |-> table, schema |-> schema]))
          [] name = "table_stats" ->
                IF table = "" THEN noTable
                ELSE Run(getSQL("tableStats", dbType,
                                [table |-> table, schema |-> schema]))
          [] name = "search_tables" ->
                IF pattern = ""
                THEN Early("Error: search pattern is required")
                ELSE Run(SQL_searchTables(n, pattern, OrPublic(schema)))
          [] name = "list_columns" ->
                IF table = "" THEN noTable
                ELSE Run(SQL_listColumns(n, table, OrPublic(schema)))
          [] name = "sample_distinct" ->
                IF table = "" \/ column = ""
                THEN Early("Error: table and column names are required")
                ELSE Run(SQL_sampleDistinct(n, table, column,
                                            clampLimit(a, 20), schema))
          [] name = "list_views" ->
                Run(SQL_listViews(n, OrPublic(schema)))
          [] name = "list_indexes" ->
                IF table = "" THEN noTable
                ELSE Run(SQL_listIndexes(n, table, OrPublic(schema)))
          [] name = "list_constraints" ->
                IF table = "" THEN noTable
                ELSE Run(SQL_listConstraints(n, table, OrPublic(schema)))

\* ============================================================ tool router

NoResult == [kind |-> "none", isError |-> FALSE, text |-> "", tools |-> <<>>]
Returned(e) ==
    [kind |-> "envelope", isError |-> e.isError, text |-> e.text,
     tools |-> <<>>]
Raised(msg) == [kind |-> "throw", isError |-> FALSE, text |-> msg, tools |-> <<>>]
Listed(ts) == [kind |-> "tools", isError |-> FALSE, text |-> "", tools |-> ts]

NoWire == [name |-> "", arguments |-> Undefined]
\* A request: sent counts the remote callTool calls it issued, wire is the
\* last of them, thrown the message of the exception raised while serving,
\* afterExit tells that the engine had exited when the request arrived.
NoReq == [pc |-> "idle", kind |-> "none", name |-> "", args |-> Undefined,
          builtin |-> FALSE, client |-> 0, sent |-> 0, wire |-> NoWire,
          thrown |-> "", result |-> NoResult, afterExit |-> FALSE]

\* The handler without its catch: the exception leaves the handler.
catchEnvelope_rethrow(msg) == Raised(msg)

\* The catch of the CallTool handler.
catchEnvelope(msg) == Returned(Envelope("Error: " \o msg, TRUE))

\* getToolboxClient throws when this.toolboxClient is null.
NotConnectedMsg == "Toolbox client not connected"

\* `args && typeof args === 'object' ? args : {}`
safeArgs(args) == IF args.t = "object" THEN args.v ELSE EmptyObj

\* The CallTool handler from its entry to its first await, or to its return
\* when it reaches none.
callTool_begin(name, args) ==
    LET base == [NoReq EXCEPT !.kind = "call", !.name = name, !.args = args,
                              !.afterExit = toolboxClient # 0 /\
                                            proc[toolboxClient] = "exited"]
        h == handler(name, safeArgs(args), prebuiltType)
    IN  IF toolboxClient = 0
        THEN [base EXCEPT !.pc = "done",
                          !.builtin = findBuiltinTool(name),
                          !.thrown = NotConnectedMsg,
                          !.result = catchEnvelope(NotConnectedMsg)]
        ELSE IF findBuiltinTool(name)
        THEN IF h.early
             THEN [base EXCEPT !.pc = "done", !.builtin = TRUE,
                               !.result = Returned(Envelope(h.text, TRUE))]
             ELSE [base EXCEPT !.pc = "await", !.builtin = TRUE,
                               !.client = toolboxClient, !.sent = 1,
                               !.wire = executeSQL(h.sql)]
        ELSE [base EXCEPT !.pc = "await", !.client = toolboxClient,
                          !.sent = 1,
                          !.wire = [name |-> name,
                                    arguments |-> Obj(safeArgs(args))]]

\* executeSQL without its catch, in a handler without its catch.
callTool_rejected_uncaught(r, msg) == Raised(msg)

\* A rejected remote call: executeSQL's catch on the built-in path, the
\* handler's catch on the forwarding path.
callTool_rejected(r, msg) ==
    IF r.builtin
    THEN Returned(Envelope("Error executing SQL: " \o msg, TRUE))
    ELSE catchEnvelope(msg)

\* A tools/call request arrives.
call_tool(name, args) ==
    /\ exited = "running" /\ frontend = "connected"
    /\ req.pc = "idle"
    /\ req' = callTool_begin(name, args)

\* The names the engine serves.
RemoteNames == {remoteTools[i].name : i \in DOMAIN remoteTools}

\* The engine answers a call with an envelope; a tool it does not have
\* gets no success.
remote_reply(e) ==
    /\ exited = "running"
    /\ req.pc = "await" /\ req.kind = "call"
    /\ Connected(req.client)
    /\ req.wire.name \in RemoteNames \/ e.isError
    /\ req' = [req EXCEPT !.pc = "done", !.result = Returned(e)]

\* The engine answers a call with a protocol error: callTool rejects.
remote_error ==
    /\ exited = "running"
    /\ req.pc = "await" /\ req.kind = "call"
    /\ Connected(req.client)
    /\ req' = [req EXCEPT !.pc = "done", !.thrown = "MCP error",
                          !.result = callTool_rejected(req, "MCP error")]

\* The channel of the call is gone (closed, or the engine has exited):
\* callTool rejects.
channel_reject ==
    /\ exited = "running"
    /\ req.pc = "await" /\ req.kind = "call"
    /\ ~Connected(req.client)
    /\ req' = [req EXCEPT !.pc = "done", !.thrown = "Not connected",
                          !.result = callTool_rejected(req, "Not connected")]

\* A handler that answers with the catalog alone when there is no channel.
listTools_begin_catalog ==
    IF toolboxClient = 0
    THEN [NoReq EXCEPT !.pc = "done", !.kind = "list",
                       !.result = Listed(getBuiltinToolDefinitions)]
    ELSE [NoReq EXCEPT !.pc = "await", !.kind = "list",
                       !.client = toolboxClient]

\* The ListTools handler from its entry to its await, or to its throw when
\* getToolboxClient finds no client.
listTools_begin ==
    IF toolboxClient = 0
    THEN [NoReq EXCEPT !.pc = "done", !.kind = "list",
                       !.thrown = NotConnectedMsg,
                       !.result = Raised(NotConnectedMsg)]
    ELSE [NoReq EXCEPT !.pc = "await", !.kind = "list",
                       !.client = toolboxClient]

\* A tools/list request arrives; the handler has no try/catch.
list_tools ==
    /\ exited = "running" /\ frontend = "connected"
    /\ req.pc = "idle"
    /\ req' = listTools_begin

\* A merge that drops the built-ins the engine already names.
allTools_dedup(remote) ==
    remote \o SelectSeq(getBuiltinToolDefinitions,
                        LAMBDA d : \A i \in DOMAIN remote : remote[i].name # d.name)

\* [...(toolboxResult.tools || []), ...builtinTools]
allTools(remote) == remote \o getBuiltinToolDefinitions

\* client.listTools() resolves.
list_reply ==
    /\ exited = "running"
    /\ req.pc = "await" /\ req.kind = "list"
    /\ Connected(req.client)
    /\ req' = [req EXCEPT !.pc = "done",
                          !.result = Listed(allTools(remoteTools))]

\* client.listTools() rejects.
list_reject ==
    /\ exited = "running"
    /\ req.pc = "await" /\ req.kind = "list"
    /\ LET msg == IF Connected(req.client) THEN "MCP error"
                  ELSE "Not connected"
       IN  req' = [req EXCEPT !.pc = "done", !.thrown = msg,
                              !.result = Raised(msg)]

\* The front-end sends the response; the next request can be read.
respond ==
    /\ exited = "running"
    /\ req.pc = "done"
    /\ req' = NoReq

\* ------------------------------------------------ requests in flight
\* The front-end starts a handler for each request it reads and does not
\* wait for the one before; the client library gives every callTool and
\* listTools its own promise.  req is then one request per slot.

Slots == 1..2

NoReqs == [s \in Slots |-> NoReq]

\* What the engine answers to a call it serves.
Answer(wire) ==
    Envelope("result of " \o wire.name \o
               (IF "sql" \in DOMAIN wire.arguments.v
                THEN ": " \o wire.arguments.v.sql ELSE ""), FALSE)

\* A handler that keeps its result in a field of the instance: the value
\* reaches every request that is waiting.
inflight_settle_shared(s, thrown, result) ==
    req' = [t \in Slots |->
              IF t = s \/ req[t].pc = "await"
              THEN [req[t] EXCEPT !.pc = "done", !.thrown = thrown,
                                  !.result = result]
              ELSE req[t]]

\* The handler of slot s returns or throws: result and thrown are locals.
inflight_settle(s, thrown, result) ==
    req' = [req EXCEPT ![s] = [@ EXCEPT !.pc = "done", !.thrown = thrown,
                                        !.result = result]]

\* A tools/call request arrives while others may be in flight.
inflight_call(s, name, args) ==
    /\ exited = "running" /\ frontend = "connected"
    /\ req[s].pc = "idle"
    /\ req' = [req EXCEPT ![s] = callTool_begin(name, args)]

\* A tools/list request arrives while others may be in flight.
inflight_list(s) ==
    /\ exited = "running" /\ frontend = "connected"
    /\ req[s].pc = "idle"
    /\ req' = [req EXCEPT ![s] = listTools_begin]

\* The engine answers the call of slot s.
inflight_reply(s) ==
    /\ exited = "running"
    /\ req[s].pc = "await" /\ req[s].kind = "call"
    /\ Connected(req[s].client)
    /\ req[s].wire.name \in RemoteNames
    /\ inflight_settle(s, "", Returned(Answer(req[s].wire)))

\* The callTool of slot s rejects: a protocol error of the engine, or a
\* channel that is gone.
inflight_reject(s) ==
    /\ exited = "running"
    /\ req[s].pc = "await" /\ req[s].kind = "call"
    /\ LET msg == IF Connected(req[s].client) THEN "MCP error"
                  ELSE "Not connected"
       IN  inflight_settle(s, msg, callTool_rejected(req[s], msg))

\* The listTools of slot s resolves.
inflight_listed(s) ==
    /\ exited = "running"
    /\ req[s].pc = "await" /\ req[s].kind = "list"
    /\ Connected(req[s].client)
    /\ inflight_settle(s, "", Listed(allTools(remoteTools)))

\* The listTools of slot s rejects and the handler throws.
inflight_listRejected(s) ==
    /\ exited = "running"
    /\ req[s].pc = "await" /\ req[s].kind = "list"
    /\ LET msg == IF Connected(req[s].client) THEN "MCP error"
                  ELSE "Not connected"
       IN  inflight_settle(s, msg, Raised(msg))

\* The front-end sends the response of slot s.
inflight_respond(s) ==
    /\ exited = "running"
    /\ req[s].pc = "done"
    /\ req' = [req EXCEPT ![s] = NoReq]

\* ================================================================ config.ts

\* JavaScript values of a configuration: t is the type, s the text of a
\* string or scalar, keys and items the members of an object (items alone
\* those of an array).  A string that is scanned is the sequence of its
\* characters; a string that is only copied is written as one.
JsValue(t, s, keys, items) == [t |-> t, s |-> s, keys |-> keys, items |-> items]
JsUndefined == JsValue("undefined", <<>>, <<>>, <<>>)
JsString(s) == JsValue("string", s, <<>>, <<>>)
JsNumber(n) == JsValue("number", n, <<>>, <<>>)
JsScalar(t, s) == JsValue(t, s, <<>>, <<>>)
JsArray(items) == JsValue("array", <<>>, <<>>, items)
JsObject(keys, items) == JsValue("object", <<>>, keys, items)

\* a ?? b
Nullish(a, b) == IF a.t \in {"undefined", "null"} THEN b ELSE a

\* Names that process.env answers without any variable being set: it is an
\* ordinary object, so `process.env[name]` finds the methods it inherits from
\* Object.prototype (two of them here).
ObjectPrototype == {<<"t", "o", "S", "t", "r", "i", "n", "g">>, <<"v", "a", "l", "u", "e", "O", "f">>}

\* process.env[envVar], envVar computed.
processEnv(env, envVar) ==
    IF envVar \in DOMAIN env THEN JsString(env[envVar])
    ELSE IF envVar \in ObjectPrototype
         THEN JsValue("function", envVar, <<>>, <<>>)
         ELSE JsUndefined

\* The string String.prototype.replace makes of what its callback returns.
StringOf(v) ==
    IF v.t = "function"
    THEN <<"f", "u", "n", "c", "t", "i", "o", "n", " ">> \o v.s \o <<"(", ")", " ", "{", " ", "[", "n", "a", "t", "i", "v", "e", " ", "c", "o", "d", "e", "]", " ", "}">>
    ELSE v.s

RECURSIVE RunOf(_, _, _)
\* Length of the longest run of characters of s from position i on that
\* are not in ends: what [^...]+ and [^...]* consume.
RunOf(s, i, ends) ==
    IF i > Len(s) \/ s[i] \in ends THEN 0 ELSE 1 + RunOf(s, i + 1, ends)

NoMatch == [ok |-> FALSE, envVar |-> <<>>, defaultValue |-> JsUndefined, end |-> 0]

\* The match of /\$\{([^:}]+)(?::([^}]*))?\}/ that starts at position i of
\* s, if there is one; end is its last position.
MatchAt(s, i) ==
    LET n == RunOf(s, i + 2, {":", "}"})
        e == i + 2 + n
        d == RunOf(s, e + 1, {"}"})
    IN  IF i + 1 > Len(s) THEN NoMatch
        ELSE IF s[i] # "$" \/ s[i + 1] # "{" THEN NoMatch
        ELSE IF n = 0 \/ e > Len(s) THEN NoMatch
        ELSE IF s[e] = "}"
             THEN [ok |-> TRUE, envVar |-> SubSeq(s, i + 2, e - 1),
                   defaultValue |-> JsUndefined, end |-> e]
        ELSE IF e + 1 + d > Len(s) THEN NoMatch
        ELSE [ok |-> TRUE, envVar |-> SubSeq(s, i + 2, e - 1),
              defaultValue |-> JsString(SubSeq(s, e + 1, e + d)),
              end |-> e + 1 + d]

\* The callback of replace: process.env[envVar] ?? defaultValue ?? ''
replacer(env, envVar, defaultValue) ==
    Nullish(Nullish(processEnv(env, envVar), defaultValue), JsString(<<>>))

RECURSIVE replace(_, _, _)
\* s.replace(/.../g, callback) from position i on: matches are taken
\* leftmost first and the replacement is not scanned again.
replace(s, i, env) ==
    IF i > Len(s) THEN <<>>
    ELSE LET m == MatchAt(s, i)
         IN  IF m.ok
             THEN StringOf(replacer(env, m.envVar, m.defaultValue))
                    \o replace(s, m.end + 1, env)
             ELSE <<s[i]>> \o replace(s, i + 1, env)

RECURSIVE replaceEnvVars(_, _)
replaceEnvVars(obj, env) ==
    IF obj.t = "string" THEN JsString(replace(obj.s, 1, env))
    ELSE IF obj.t = "array"
         THEN JsArray([i \in DOMAIN obj.items |->
                          replaceEnvVars(obj.items[i], env)])
    ELSE IF obj.t = "object"
         THEN JsObject(obj.keys, [i \in DOMAIN obj.items |->
                                     replaceEnvVars(obj.items[i], env)])
    ELSE obj

\* ------------------------------------------------ configuration documents
\* A string leaf is written as a sequence of segments: literal text, or a
\* placeholder ${name} / ${name:default}.

Literal(text) == [seg |-> "lit", text |-> text, name |-> <<>>, dflt |-> JsUndefined]
Placeholder(name, dflt) == [seg |-> "ref", text |-> <<>>, name |-> name, dflt |-> dflt]

\* The characters of a segment as they stand in the file.
SegmentText(g) ==
    IF g.seg = "lit" THEN g.text
    ELSE <<"$", "{">> \o g.name
           \o (IF g.dflt.t = "string" THEN <<":">> \o g.dflt.s ELSE <<>>)
           \o <<"}">>

RECURSIVE LeafText(_)
LeafText(segs) ==
    IF segs = <<>> THEN <<>> ELSE SegmentText(Head(segs)) \o LeafText(Tail(segs))

\* What parseYaml returns for a document of shape k around a string leaf.
Shape(k, leaf) ==
    CASE k = 1 -> JsString(leaf)
      [] k = 2 ->
           JsObject(<<"sources", "tools">>,
              << JsObject(<<"my-sqlite">>,
                    << JsObject(<<"kind", "database", "port">>,
                          << JsString(<<"s", "q", "l", "i", "t", "e">>),
                             JsString(leaf),
                             JsNumber(5432) >>) >>),
                 JsArray(<< JsString(leaf), JsScalar("null", <<>>),
                            JsScalar("boolean", <<"t", "r", "u", "e">>) >>) >>)
      [] k = 4 ->
           JsObject(<<"sources", "tools">>,
              << JsObject(<<<<"x">>>>,
                    << JsObject(<<"kind", "database">>,
                          << JsString(<<"s", "q", "l", "i", "t", "e">>),
                             JsString(<<"a", ".", "d", "b">>) >>) >>),
                 JsObject(<<"query">>,
                    << JsObject(<<"kind", "source">>,
                          << JsString(<<"s", "q", "l", "i", "t", "e", "-", "s", "q", "l">>),
                             JsString(leaf) >>) >>) >>)
      [] OTHER ->
           JsObject(<<"${A}", "nested">>,
              << JsString(leaf), JsArray(<< JsArray(<< JsString(leaf) >>) >>) >>)

\* loadConfig(configPath): readFileSync, parseYaml, replaceEnvVars; any
\* exception is thrown again as `Failed to load config from ...`.
loadConfig(file, env) ==
    IF file.status = "ok"
    THEN [pc |-> "loaded",
          out |-> replaceEnvVars(Shape(file.shape, LeafText(file.leaf)), env)]
    ELSE [pc |-> "threw", out |-> JsScalar("error", file.status)]

\* ------------------------------------------------- generatePrebuiltConfig

\* process.env.NAME, NAME fixed in the code.
getenv(env, name) ==
    IF name \in DOMAIN env THEN JsString(env[name]) ELSE JsUndefined

getGlobalDbEnv(env) ==
    [host |-> getenv(env, "DATABASE_HOST"),
     port |-> getenv(env, "DATABASE_PORT"),
     database |-> getenv(env, "DATABASE_NAME"),
     user |-> getenv(env, "DATABASE_USER"),
     password |-> getenv(env, "DATABASE_PASSWORD")]

NaN == [finite |-> FALSE, n |-> 0]

\* Number(text) for the texts an environment of the model holds.
Number(text) ==
    CASE text = "" -> [finite |-> TRUE, n |-> 0]
      [] text = "5000" -> [finite |-> TRUE, n |-> 5000]
      [] text = "5433" -> [finite |-> TRUE, n |-> 5433]
      [] text = "5434" -> [finite |-> TRUE, n |-> 5434]
      [] text = "5900" -> [finite |-> TRUE, n |-> 5900]
      [] text = "6000" -> [finite |-> TRUE, n |-> 6000]
      [] text = "6543" -> [finite |-> TRUE, n |-> 6543]
      [] text = "Infinity" -> [finite |-> FALSE, n |-> 0]
      [] OTHER -> NaN

toNumber(value, fallback) ==
    IF value.t = "undefined" \/ value.s = "" THEN JsNumber(fallback)
    ELSE LET parsed == Number(value.s)
         IN  IF parsed.finite THEN JsNumber(parsed.n) ELSE JsNumber(fallback)

\* A ToolsConfig with one source.
OneSource(name, source) == [sources |-> (name :> source)]

generatePrebuiltConfig(dbType, env) ==
    LET GLOBAL_DB_ENV == getGlobalDbEnv(env)
        or(v, dflt) == Nullish(v, JsString(dflt))
    IN  CASE dbType = "postgres" ->
               OneSource("postgres-db",
                 [kind |-> JsString("postgres"),
                  host |-> or(GLOBAL_DB_ENV.host, "localhost"),
                  port |-> toNumber(GLOBAL_DB_ENV.port, 5432),
                  database |-> or(GLOBAL_DB_ENV.database, "postgres"),
                  user |-> or(GLOBAL_DB_ENV.user, "postgres"),
                  password |-> or(GLOBAL_DB_ENV.password, "")])
          [] dbType = "mysql" ->
               OneSource("mysql-db",
                 [kind |-> JsString("mysql"),
                  host |-> or(GLOBAL_DB_ENV.host, "localhost"),
                  port |-> toNumber(GLOBAL_DB_ENV.port, 3306),
                  database |-> or(GLOBAL_DB_ENV.database, "mysql"),
                  user |-> or(GLOBAL_DB_ENV.user, "root"),
                  password |-> or(GLOBAL_DB_ENV.password, "")])
          [] dbType = "sqlite" ->
               OneSource("sqlite-db",
                 [kind |-> JsString("sqlite"),
                  database |-> or(GLOBAL_DB_ENV.database, "./database.db")])
          [] dbType = "mongodb" ->
               OneSource("mongo-db",
                 [kind |-> JsString("mongodb"),
                  host |-> or(GLOBAL_DB_ENV.host, "localhost"),
                  port |-> toNumber(GLOBAL_DB_ENV.port, 27017),
                  database |-> or(GLOBAL_DB_ENV.database, "test"),
                  user |-> or(GLOBAL_DB_ENV.user, ""),
                  password |-> or(GLOBAL_DB_ENV.password, "")])
          [] dbType = "redis" ->
               OneSource("redis-db",
                 [kind |-> JsString("redis"),
                  host |-> or(GLOBAL_DB_ENV.host, "localhost"),
                  port |-> toNumber(GLOBAL_DB_ENV.port, 6379),
                  password |-> or(GLOBAL_DB_ENV.password, "")])
          [] dbType = "mssql" ->
               OneSource("mssql-db",
                 [kind |-> JsString("mssql"),
                  host |-> or(GLOBAL_DB_ENV.host, "localhost"),
                  port |-> toNumber(GLOBAL_DB_ENV.port, 1433),
                  database |-> or(GLOBAL_DB_ENV.database, "master"),
                  user |-> or(GLOBAL_DB_ENV.user, "sa"),
                  password |-> or(GLOBAL_DB_ENV.password, "")])
          [] dbType = "cloud-sql-postgres" ->
               OneSource("cloud-sql-pg",
                 [kind |-> JsString("cloud-sql-postgres"),
                  project |-> or(getenv(env, "GCP_PROJECT"), ""),
                  region |-> or(getenv(env, "GCP_REGION"), "us-central1"),
                  instance |-> or(getenv(env, "CLOUD_SQL_INSTANCE"), ""),
                  database |-> or(GLOBAL_DB_ENV.database, "postgres"),
                  user |-> or(GLOBAL_DB_ENV.user, "postgres"),
                  password |-> or(GLOBAL_DB_ENV.password, "")])
          [] dbType = "cloud-sql-mysql" ->
               OneSource("cloud-sql-mysql",
                 [kind |-> JsString("cloud-sql-mysql"),
                  project |-> or(getenv(env, "GCP_PROJECT"), ""),
                  region |-> or(getenv(env, "GCP_REGION"), "us-central1"),
                  instance |-> or(getenv(env, "CLOUD_SQL_INSTANCE"), ""),
                  database |-> or(GLOBAL_DB_ENV.database, "mysql"),
                  user |-> or(GLOBAL_DB_ENV.user, "root"),
                  password |-> or(GLOBAL_DB_ENV.password, "")])
          [] dbType = "alloydb-pg" ->
               OneSource("alloydb-pg",
                 [kind |-> JsString("alloydb-pg"),
                  project |-> or(getenv(env, "GCP_PROJECT"), ""),
                  region |-> or(getenv(env, "GCP_REGION"), "us-central1"),
                  cluster |-> or(getenv(env, "ALLOYDB_CLUSTER"), ""),
                  instance |-> or(getenv(env, "ALLOYDB_INSTANCE"), ""),
                  database |-> or(GLOBAL_DB_ENV.database, "postgres"),
                  user |-> or(GLOBAL_DB_ENV.user, "postgres"),
                  password |-> or(GLOBAL_DB_ENV.password, "")])
          [] dbType = "bigquery" ->
               OneSource("bigquery",
                 [kind |-> JsString("bigquery"),
                  project |-> or(getenv(env, "GCP_PROJECT"), ""),
                  dataset |-> or(getenv(env, "BIGQUERY_DATASET"), "")])
          [] dbType = "spanner" ->
               OneSource("spanner",
                 [kind |-> JsString("spanner"),
                  project |-> or(getenv(env, "GCP_PROJECT"), ""),
                  instance |-> or(getenv(env, "SPANNER_INSTANCE"), ""),
                  database |-> or(getenv(env, "SPANNER_DATABASE"), "")])
          [] dbType = "firestore" ->
               OneSource("firestore",
                 [kind |-> JsString("firestore"),
                  project |-> or(getenv(env, "GCP_PROJECT"), ""),
                  database |-> or(getenv(env, "FIRESTORE_DATABASE"), "(default)")])

PrebuiltDatabase ==
    {"postgres", "mysql", "sqlite", "mongodb", "redis", "mssql",
     "cloud-sql-postgres", "cloud-sql-mysql", "alloydb-pg", "bigquery",
     "spanner", "firestore"}

\* ------------------------------------------------------- mapEnvForToolbox

\* prebuiltType.toUpperCase().replace(/-/g, '_')
upperType(dbType) ==
    CASE dbType = "postgres" -> "POSTGRES"
      [] dbType = "mysql" -> "MYSQL"
      [] dbType = "sqlite" -> "SQLITE"
      [] dbType = "mongodb" -> "MONGODB"
      [] dbType = "redis" -> "REDIS"
      [] dbType = "mssql" -> "MSSQL"
      [] dbType = "cloud-sql-postgres" -> "CLOUD_SQL_POSTGRES"
      [] dbType = "cloud-sql-mysql" -> "CLOUD_SQL_MYSQL"
      [] dbType = "alloydb-pg" -> "ALLOYDB_PG"
      [] dbType = "bigquery" -> "BIGQUERY"
      [] dbType = "spanner" -> "SPANNER"
      [] dbType = "firestore" -> "FIRESTORE"

\* A string read from an object is truthy when it is there and not empty.
Truthy(env, name) == name \in DOMAIN env /\ env[name] # ""

\* result[name] = value
Assign(result, name, value) ==
    [n \in DOMAIN result \cup {name} |-> IF n = name THEN value ELSE result[n]]

\* if (unified && !env[`${upperType}_X`]) result[`${upperType}_X`] = unified
mapOne(result, env, unified, specific) ==
    IF Truthy(env, unified) /\ ~Truthy(env, specific)
    THEN Assign(result, specific, env[unified])
    ELSE result

\* A mapper that writes into the object it was given: `const result = env`.
mapEnvForToolbox_inPlace(env, dbType) ==
    IF dbType = "" THEN [result |-> env, env |-> env]
    ELSE LET T == upperType(dbType)
             r1 == mapOne(env, env, "DATABASE_NAME", T \o "_DATABASE")
             r2 == mapOne(r1, env, "DATABASE_HOST", T \o "_HOST")
             r3 == mapOne(r2, env, "DATABASE_PORT", T \o "_PORT")
             r4 == mapOne(r3, env, "DATABASE_USER", T \o "_USER")
             r5 == mapOne(r4, env, "DATABASE_PASSWORD", T \o "_PASSWORD")
         IN  [result |-> r5, env |-> r5]

\* mapEnvForToolbox(env, prebuiltType): result is what it returns, env the
\* object it was given as the call leaves it (result is a copy, `{ ...env }`).
mapEnvForToolbox(env, dbType) ==
    IF dbType = "" THEN [result |-> env, env |-> env]
    ELSE LET T == upperType(dbType)
             r1 == mapOne(env, env, "DATABASE_NAME", T \o "_DATABASE")
             r2 == mapOne(r1, env, "DATABASE_HOST", T \o "_HOST")
             r3 == mapOne(r2, env, "DATABASE_PORT", T \o "_PORT")
             r4 == mapOne(r3, env, "DATABASE_USER", T \o "_USER")
             r5 == mapOne(r4, env, "DATABASE_PASSWORD", T \o "_PASSWORD")
         IN  [result |-> r5, env |-> env]

\* ------------------------------------------------------------ cli.ts main
\* The options of the command line and what main hands to startServer;
\* values holds the options parseArgs found, env is process.env.

\* String.prototype.toLowerCase on the texts an option of the model holds.
toLowerCase(text) == IF text = "HTTP" THEN "http" ELSE text

\* main, 154-174: a truthy option is written into process.env.
setOverride(env, values, option, name) ==
    IF Truthy(values, option) THEN Assign(env, name, values[option]) ELSE env

setOverrides(env, values) ==
    LET e1 == setOverride(env, values, "db-host", "MCP_DATABASE_HOST")
        e2 == setOverride(e1, values, "db-port", "MCP_DATABASE_PORT")
        e3 == setOverride(e2, values, "db-name", "MCP_DATABASE_NAME")
        e4 == setOverride(e3, values, "db-user", "MCP_DATABASE_USER")
        e5 == setOverride(e4, values, "db-password", "MCP_DATABASE_PASSWORD")
        e6 == setOverride(e5, values, "toolbox-host", "MCP_TOOLBOX_HOST")
    IN  setOverride(e6, values, "toolbox-port", "MCP_TOOLBOX_PORT")

\* A transport resolution that asks the environment first.
transportValue_envFirst(values, env) ==
    LET chosen == Nullish(getenv(env, "MCP_TOOLBOX_TRANSPORT"),
                          getenv(values, "transport"))
    IN  IF chosen.t = "undefined" THEN chosen
        ELSE JsString(toLowerCase(chosen.s))

\* (values.transport ?? process.env.MCP_TOOLBOX_TRANSPORT)?.toString().toLowerCase()
transportValue(values, env) ==
    LET chosen == Nullish(getenv(values, "transport"),
                          getenv(env, "MCP_TOOLBOX_TRANSPORT"))
    IN  IF chosen.t = "undefined" THEN chosen
        ELSE JsString(toLowerCase(chosen.s))

\* transportValue ? transportValue !== 'http' : values.stdio !== false
useStdio(values, env, stdioFlag) ==
    LET tv == transportValue(values, env)
    IN  IF tv.t = "string" /\ tv.s # "" THEN tv.s # "http" ELSE stdioFlag # FALSE

\* The toolboxPort option of startServer: a number, or undefined.
toolboxPortOption(values, env) ==
    IF "toolbox-port" \in DOMAIN values
    THEN JsNumber(Number(values["toolbox-port"]))
    ELSE IF Truthy(env, "MCP_TOOLBOX_PORT")
         THEN JsNumber(Number(env["MCP_TOOLBOX_PORT"]))
         ELSE JsUndefined

\* The options object main passes to startServer.
startServerOptions(values, env, dbType, stdioFlag) ==
    [prebuiltType |-> dbType,
     stdio |-> useStdio(values, env, stdioFlag),
     toolboxHost |-> getenv(values, "toolbox-host"),
     toolboxPort |-> toolboxPortOption(values, env)]

\* startToolboxClient, 525: the address the engine is told to listen on.
toolboxHostOf(options, env) ==
    Nullish(options.toolboxHost,
            Nullish(getenv(env, "MCP_TOOLBOX_HOST"), JsString("127.0.0.1"))).s

\* startToolboxClient, 526: the port, a number.
toolboxPortOf(options, env) ==
    Nullish(options.toolboxPort,
            JsNumber(Number(Nullish(getenv(env, "MCP_TOOLBOX_PORT"),
                                    JsString("5000")).s))).s

\* startToolboxClient up to the launch of the engine: its environment, its
\* mode and, in http mode, its address.
launch(options, env) ==
    LET toolboxEnv == mapEnvForToolbox(env, options.prebuiltType).result
    IN  IF options.stdio # FALSE
        THEN [mode |-> "stdio", env |-> toolboxEnv, host |-> "",
              port |-> NaN]
        ELSE [mode |-> "http", env |-> toolboxEnv,
              host |-> toolboxHostOf(options, env),
              port |-> toolboxPortOf(options, env)]

\* ------------------------------------------------- the server as a program

\* Inputs of the tool requests.
Requests ==
    { <<"list_tables", Undefined>>,
      <<"describe_table", Obj(EmptyObj)>>,
      <<"describe_table", Obj([table |-> "users"])>>,
      <<"execute_sql", Undefined>>,
      <<"execute_sql", Obj([sql |-> "SELECT 1"])>>,
      <<"no_such_tool", Obj(EmptyObj)>> }
RemoteEnvelopes == {Envelope("rows", FALSE), Envelope("engine error", TRUE)}

\* Tool lists an engine advertises: with and without a name of the catalog.
RemoteToolLists ==
    { <<ToolDef("execute_sql", "engine")>>,
      <<ToolDef("execute_sql", "engine"), ToolDef("list_tables", "engine")>> }

CfgIdle ==
    /\ cfgIn = "" /\ cfgEnv = EmptyObj /\ cfgOut = "" /\ cfgPc = "off"

Init ==
    /\ stdio \in BOOLEAN
    /\ prebuiltType \in {"", "sqlite"}
    /\ remoteTools \in RemoteToolLists
    /\ LifeInit
    /\ req = NoReq
    /\ CfgIdle

Life(A) == A /\ UNCHANGED <<optVars, req, cfgVars>>
Route(A) == A /\ UNCHANGED <<optVars, lifeVars, cfgVars>>

\* startServer, called by main: the one start() of the program.
main_start == nStarts = 0 /\ \E t \in Paths, w \in BOOLEAN : start(t, w)

StartSteps ==
    \/ poll_connect \/ poll_error \/ poll_silent \/ poll_delayed
    \/ handshake_ok \/ (\E r \in BOOLEAN : handshake_fail(r))
    \/ connect_ok \/ connect_fail

StopSteps ==
    \E j \in StopSlots :
        \/ \E ok \in BOOLEAN, d \in BOOLEAN : stop_afterClient(j, ok, d)
        \/ \E ok \in BOOLEAN, d \in BOOLEAN : stop_afterTransport(j, ok, d)
        \/ stop_afterServer(j)

Next ==
    \/ Life(main_start)
    \/ Life(StartSteps)
    \/ Life(main_catch)
    \/ Life(\E j \in StopSlots, d \in BOOLEAN : signal(j, d))
    \/ Life(StopSteps)
    \/ Life(\E j \in StopSlots : signal_exit(j))
    \/ Life(\E i \in Ids : proc_exit(i))
    \/ Route(\E r \in Requests : call_tool(r[1], r[2]))
    \/ Route(\E e \in RemoteEnvelopes : remote_reply(e))
    \/ Route(remote_error)
    \/ Route(channel_reject)
    \/ Route(list_tools)
    \/ Route(list_reply)
    \/ Route(list_reject)
    \/ Route(respond)

Spec == Init /\ [][Next]_vars

\* The event loop runs every continuation whose promise has settled and
\* every timer that is due: a step of start() that can be taken is taken,
\* and a callTool on a dead channel is rejected by the client library.
FairSpec ==
    /\ Spec
    /\ WF_vars(Life(StartSteps))
    /\ WF_vars(Route(channel_reject))

\* ------------------------------------- the server embedded as a library
\* startServer and DatabaseMCPServer are exported: the holder of the
\* instance calls start() and stop() itself, one call after the other.

ApiIdle == startPc = "idle" /\ \A j \in StopSlots : stops[j].pc = "idle"

InitApi ==
    /\ stdio \in BOOLEAN
    /\ prebuiltType = ""
    /\ remoteTools = <<ToolDef("execute_sql", "engine")>>
    /\ LifeInit
    /\ req = NoReq
    /\ CfgIdle

api_start ==
    /\ ApiIdle /\ nStarts < MaxStarts
    /\ \E t \in Paths, w \in BOOLEAN : start(t, w)

\* A rejected start() hands its error to its caller.
api_start_rejected ==
    /\ exited = "running" /\ startPc = "failed"
    /\ startPc' = "idle"
    /\ UNCHANGED <<now, configPath, toolboxClient, toolboxTransport,
                   toolboxProcess, files, proc, handshaken, clientCloses,
                   transportCloses, kills, unlinks, frontend, nStarts,
                   attempts, waits, stops, stopCalls, cleanStopAt,
                   handlersInstalled, exited>>

api_stop == ApiIdle /\ \E j \in StopSlots, d \in BOOLEAN : stop(j, "api", d)

NextApi ==
    \/ Life(api_start)
    \/ Life(StartSteps)
    \/ Life(api_start_rejected)
    \/ Life(api_stop)
    \/ Life(StopSteps)
    \/ Life(\E j \in StopSlots : stop_return(j))
    \/ Life(\E i \in Ids : proc_exit(i))

SpecApi == InitApi /\ [][NextApi]_vars

\* ------------------------------------------- config.ts run on its inputs
\* The exported functions loadConfig and generatePrebuiltConfig, each called
\* once on an input: a file and an environment, a dialect and an environment.

MaxSegments == 2        \* segments of a string leaf

EnvNames == {<<"A">>, <<"D", "B">>}
EnvValues == {<<>>, <<"v">>, <<"$", "{", "A", "}">>}
Envs == UNION {[S -> EnvValues] : S \in SUBSET EnvNames}

Literals == {<<"x">>, <<"$">>, <<"}">>, <<":">>}
Defaults ==
    {JsUndefined, JsString(<<>>), JsString(<<"d">>), JsString(<<"a", ":", "b">>)}
Segments ==
    {Literal(t) : t \in Literals}
      \cup {Placeholder(n, d) : n \in EnvNames \cup ObjectPrototype, d \in Defaults}
Leaves == UNION {[1..n -> Segments] : n \in 1..MaxSegments}

ConfigFiles ==
    {[use |-> "file", status |-> "ok", shape |-> k, leaf |-> l] :
        k \in 1..4, l \in Leaves}
      \cup {[use |-> "file", status |-> st, shape |-> 1, leaf |-> <<>>] :
               st \in {"missing", "invalid"}}

Unset == "<unset>"
\* The environment in which the variables of r other than Unset are set.
SetVars(r) == [n \in {m \in DOMAIN r : r[m] # Unset} |-> r[n]]
DbEnvs ==
    {SetVars(r) : r \in [DATABASE_HOST : {Unset, "db.example"},
                         DATABASE_PORT : {Unset, "", "5433", "abc"},
                         DATABASE_NAME : {Unset, "./my.db"},
                         DATABASE_USER : {Unset, "u"},
                         DATABASE_PASSWORD : {Unset, "", "p"},
                         GCP_PROJECT : {Unset, "proj"},
                         SPANNER_DATABASE : {Unset, "sdb"}]}

InitConfig ==
    /\ stdio = TRUE
    /\ prebuiltType = ""
    /\ remoteTools = <<ToolDef("execute_sql", "engine")>>
    /\ LifeInit
    /\ req = NoReq
    /\ \/ cfgIn \in ConfigFiles /\ cfgEnv \in Envs
       \/ /\ cfgIn \in {[use |-> "prebuilt", dbType |-> d] : d \in PrebuiltDatabase}
          /\ cfgEnv \in DbEnvs
    /\ cfgOut = JsUndefined
    /\ cfgPc = "call"

\* loadConfig(configPath) is called.
config_load ==
    /\ cfgPc = "call" /\ cfgIn.use = "file"
    /\ LET r == loadConfig(cfgIn, cfgEnv)
       IN  cfgPc' = r.pc /\ cfgOut' = r.out
    /\ UNCHANGED <<cfgIn, cfgEnv, optVars, lifeVars, req>>

\* generatePrebuiltConfig(dbType) is called.
config_prebuilt ==
    /\ cfgPc = "call" /\ cfgIn.use = "prebuilt"
    /\ cfgOut' = generatePrebuiltConfig(cfgIn.dbType, cfgEnv)
    /\ cfgPc' = "generated"
    /\ UNCHANGED <<cfgIn, cfgEnv, optVars, lifeVars, req>>

NextConfig ==
    \/ config_load
    \/ config_prebuilt

SpecConfig == InitConfig /\ [][NextConfig]_vars

\* ------------------------------------- mapEnvForToolbox run on its inputs
\* startToolboxClient maps the environment it hands to the engine; the
\* second call below maps an environment that was mapped already.

MapperEnvs ==
    {SetVars(r) : r \in [PATH : {"/bin"},
                         DATABASE_HOST : {Unset, "", "h"},
                         DATABASE_NAME : {Unset, "n"},
                         DATABASE_PASSWORD : {Unset, "", "p"},
                         POSTGRES_HOST : {Unset, "", "ph"},
                         POSTGRES_DATABASE : {Unset, "pd"},
                         POSTGRES_PASSWORD : {Unset, "", "pp"},
                         MYSQL_HOST : {Unset, "mh"}]}

InitMapper ==
    /\ stdio = TRUE
    /\ prebuiltType = ""
    /\ remoteTools = <<ToolDef("execute_sql", "engine")>>
    /\ LifeInit
    /\ req = NoReq
    /\ cfgEnv \in MapperEnvs
    /\ cfgIn \in {[use |-> "mapper", prebuiltType |-> d, env |-> cfgEnv,
                   once |-> <<>>] : d \in PrebuiltDatabase \cup {""}}
    /\ cfgOut = <<>>
    /\ cfgPc = "call"

\* mapEnvForToolbox(sanitizedEnv, this.options.prebuiltType)
mapper_call ==
    /\ cfgPc = "call" /\ cfgIn.use = "mapper"
    /\ LET r == mapEnvForToolbox(cfgEnv, cfgIn.prebuiltType)
       IN  cfgOut' = r.result /\ cfgEnv' = r.env
    /\ cfgPc' = "mapped"
    /\ UNCHANGED <<cfgIn, optVars, lifeVars, req>>

\* The mapper is given its own result.
mapper_again ==
    /\ cfgPc = "mapped"
    /\ cfgIn' = [cfgIn EXCEPT !.once = cfgOut]
    /\ cfgOut' = mapEnvForToolbox(cfgOut, cfgIn.prebuiltType).result
    /\ cfgPc' = "remapped"
    /\ UNCHANGED <<cfgEnv, optVars, lifeVars, req>>

NextMapper ==
    \/ mapper_call
    \/ mapper_again

SpecMapper == InitMapper /\ [][NextMapper]_vars

\* --------------------------------------- the catalog run on its inputs
\* One handler of BUILTIN_TOOLS called with a connected client: it returns
\* early, or renders a statement and hands it to executeSQL.

LimitInputs == {-5, 0, 1, 50, 100, 101, 9999}
\* The limit argument: absent, or one number.
LimitOptions == {<<>>} \cup {<<l>> : l \in LimitInputs}

\* The arguments objects: each string argument absent or given, the limit
\* absent or one of LimitInputs.
CatalogArgs ==
    {SetVars(r) @@ (IF l = <<>> THEN EmptyObj ELSE [limit |-> l[1]]) :
        r \in [table : {Unset, "", "users"},
               schema : {Unset, "public", "app"},
               column : {Unset, "", "email"},
               pattern : {Unset, "", "usr"}],
        l \in LimitOptions}

InitCatalog ==
    /\ stdio = TRUE
    /\ prebuiltType = ""
    /\ remoteTools = <<ToolDef("execute_sql", "engine")>>
    /\ LifeInit
    /\ req = NoReq
    /\ cfgIn \in {[use |-> "catalog", name |-> n, args |-> a, dbType |-> d] :
                    n \in BuiltinNames, a \in CatalogArgs,
                    d \in PrebuiltDatabase \cup {""}}
    /\ cfgEnv = EmptyObj
    /\ cfgOut = <<>>
    /\ cfgPc = "call"

\* builtinTool.handler(safeArgs, client, this.options.prebuiltType)
catalog_call ==
    /\ cfgPc = "call" /\ cfgIn.use = "catalog"
    /\ LET h == handler(cfgIn.name, cfgIn.args, cfgIn.dbType)
       IN  cfgOut' = [early |-> h.early, text |-> h.text, sql |-> h.sql,
                      wire |-> IF h.early THEN NoWire ELSE executeSQL(h.sql),
                      result |-> IF h.early
                                 THEN Returned(Envelope(h.text, TRUE))
                                 ELSE NoResult]
    /\ cfgPc' = "handled"
    /\ UNCHANGED <<cfgIn, cfgEnv, optVars, lifeVars, req>>

NextCatalog == catalog_call

SpecCatalog == InitCatalog /\ [][NextCatalog]_vars

\* ------------------------------------------------- main run on its inputs
\* main with --prebuilt: the configuration is generated, the options are
\* written into process.env and resolved, the engine is launched.

Option(name, texts) == {(name :> t) : t \in texts}

\* What parseArgs returns for the string options of the model.
CliValues ==
    {SetVars(t @@ h @@ p @@ dh @@ dp) :
        t \in Option("transport", {Unset, "http", "HTTP", "stdio", ""}),
        h \in Option("toolbox-host", {Unset, "0.0.0.0"}),
        p \in Option("toolbox-port", {Unset, "5900"}),
        dh \in Option("db-host", {Unset, "cli-db"}),
        dp \in Option("db-port", {Unset, "6543"})}

CliEnvs ==
    {SetVars(t @@ h @@ p @@ dh @@ dp @@ lh @@ lp) :
        t \in Option("MCP_TOOLBOX_TRANSPORT", {Unset, "http", "stdio"}),
        h \in Option("MCP_TOOLBOX_HOST", {Unset, "10.0.0.1"}),
        p \in Option("MCP_TOOLBOX_PORT", {Unset, "6000", ""}),
        dh \in Option("DATABASE_HOST", {Unset, "env-db"}),
        dp \in Option("DATABASE_PORT", {Unset, "5433"}),
        lh \in Option("POSTGRES_HOST", {Unset, "legacy-db"}),
        lp \in Option("POSTGRES_PORT", {Unset, "5434"})}

\* Dialects validatePrebuiltEnv requires no variable for.
CliDialects == {"postgres", "sqlite"}

\* The file of --config: none, or a readable document with one Source of
\* kind sqlite and one tool on it.
NoFile == [use |-> "none", status |-> "", shape |-> 0, leaf |-> <<>>]
CliFiles ==
    {[use |-> "file", status |-> "ok", shape |-> 4, leaf |-> <<Literal(<<"x">>)>>]}

InitCli ==
    /\ stdio = TRUE
    /\ prebuiltType = ""
    /\ remoteTools = <<ToolDef("execute_sql", "engine")>>
    /\ LifeInit
    /\ req = NoReq
    /\ \/ /\ cfgEnv \in CliEnvs
          /\ cfgIn \in {[use |-> "cli", prebuiltType |-> d, values |-> v,
                         env |-> cfgEnv, file |-> NoFile] :
                           d \in CliDialects, v \in CliValues}
       \/ /\ cfgEnv \in {e \in CliEnvs : DOMAIN e \subseteq {"MCP_TOOLBOX_TRANSPORT"}}
          /\ cfgIn \in {[use |-> "cli", prebuiltType |-> "", values |-> v,
                         env |-> cfgEnv, file |-> f] :
                           v \in CliValues, f \in CliFiles}
    /\ cfgOut = <<>>
    /\ cfgPc = "call"

\* main, 124-143: config = loadConfig(values.config) and no prebuiltType,
\* or config = generatePrebuiltConfig(dbType) and prebuiltType = dbType.
main_config ==
    /\ cfgPc = "call" /\ cfgIn.use = "cli"
    /\ cfgOut' = IF cfgIn.file.use = "file"
                 THEN [config |-> loadConfig(cfgIn.file, cfgEnv).out,
                       prebuiltType |-> ""]
                 ELSE [config |-> generatePrebuiltConfig(cfgIn.prebuiltType, cfgEnv),
                       prebuiltType |-> cfgIn.prebuiltType]
    /\ cfgPc' = "configured"
    /\ UNCHANGED <<cfgIn, cfgEnv, optVars, lifeVars, req>>

\* main, 154-194: the options are written into process.env, the transport
\* is resolved, startServer is called.
main_options ==
    /\ cfgPc = "configured" /\ cfgIn.use = "cli"
    /\ cfgEnv' = setOverrides(cfgEnv, cfgIn.values)
    /\ cfgOut' = [config |-> cfgOut.config,
                  options |-> startServerOptions(cfgIn.values, cfgEnv',
                                                 cfgOut.prebuiltType, stdio)]
    /\ cfgPc' = "options"
    /\ UNCHANGED <<cfgIn, optVars, lifeVars, req>>

\* startToolboxClient: the engine is launched.
main_launch ==
    /\ cfgPc = "options" /\ cfgIn.use = "cli"
    /\ cfgOut' = [config |-> cfgOut.config, options |-> cfgOut.options,
                  engine |-> launch(cfgOut.options, cfgEnv)]
    /\ cfgPc' = "launched"
    /\ UNCHANGED <<cfgIn, cfgEnv, optVars, lifeVars, req>>

\* A tools/call of describe_table served by the launched server: the
\* handler is given this.options.prebuiltType.
main_call ==
    /\ cfgPc = "launched" /\ cfgIn.use = "cli"
    /\ cfgOut' = [config |-> cfgOut.config, options |-> cfgOut.options,
                  engine |-> cfgOut.engine,
                  dialect |-> normalizeDbType(cfgOut.options.prebuiltType),
                  call |-> handler("describe_table", [table |-> "users"],
                                   cfgOut.options.prebuiltType)]
    /\ cfgPc' = "called"
    /\ UNCHANGED <<cfgIn, cfgEnv, optVars, lifeVars, req>>

NextCli == main_config \/ main_options \/ main_launch \/ main_call

SpecCli == InitCli /\ [][NextCli]_vars

\* ------------------------------------- two supervisors on one machine
\* Two DatabaseMCPServer instances (of one process or of two) share the
\* clock and the temporary directory.  cfgOut holds, per instance, its
\* this.configPath and whether its engine is running, and per path the
\* instance whose configuration the file on disk holds (0 = no file).

Supervisors == 1..2

NoFiles == [p \in Paths |-> 0]

InitPair ==
    /\ stdio = TRUE
    /\ prebuiltType = ""
    /\ remoteTools = <<ToolDef("execute_sql", "engine")>>
    /\ LifeInit
    /\ req = NoReq
    /\ cfgIn = [use |-> "pair"]
    /\ cfgEnv = EmptyObj
    /\ cfgOut = [configPath |-> [i \in Supervisors |-> 0],
                 live |-> [i \in Supervisors |-> FALSE],
                 disk |-> NoFiles]
    /\ cfgPc = "pair"

pairUnchanged == <<optVars, configPath, toolboxClient, toolboxTransport,
                   toolboxProcess, files, proc, handshaken, clientCloses,
                   transportCloses, kills, unlinks, frontend, startPc,
                   nStarts, attempts, waits, stops, stopCalls, cleanStopAt,
                   handlersInstalled, exited, req, cfgIn, cfgEnv, cfgPc>>

\* start() of instance i: this.configPath is named after Date.now(), which
\* reads t; writeFileSync creates or overwrites the file (written = FALSE
\* when it throws and start() rejects); the engine is launched on the file.
pair_start(i, t, written) ==
    /\ cfgPc = "pair" /\ ~cfgOut.live[i]
    /\ t \in Paths /\ t >= now /\ t <= now + 1
    /\ now' = t
    /\ cfgOut' = [cfgOut EXCEPT
                    !.configPath[i] = t,
                    !.live[i] = written,
                    !.disk[t] = IF written THEN i ELSE @]
    /\ UNCHANGED pairUnchanged

\* stop() of instance i: unlinkSync(this.configPath) inside try/catch
\* (deleted = FALSE when it throws), then this.configPath = null.
pair_stop(i, deleted) ==
    /\ cfgPc = "pair" /\ cfgOut.configPath[i] # 0
    /\ cfgOut' = [cfgOut EXCEPT
                    !.configPath[i] = 0,
                    !.live[i] = FALSE,
                    !.disk[cfgOut.configPath[i]] = IF deleted THEN 0 ELSE @]
    /\ UNCHANGED now
    /\ UNCHANGED pairUnchanged

NextPair ==
    \/ \E i \in Supervisors, t \in Paths, w \in BOOLEAN : pair_start(i, t, w)
    \/ \E i \in Supervisors, d \in BOOLEAN : pair_stop(i, d)

SpecPair == InitPair /\ [][NextPair]_vars

\* ------------------------------- the program serving requests in flight

InitInflight ==
    /\ stdio \in BOOLEAN
    /\ prebuiltType \in {"", "sqlite"}
    /\ remoteTools \in RemoteToolLists
    /\ LifeInit
    /\ req = NoReqs
    /\ CfgIdle

NextInflight ==
    \/ Life(main_start)
    \/ Life(StartSteps)
    \/ Life(\E i \in Ids : proc_exit(i))
    \/ Route(\E s \in Slots, r \in Requests : inflight_call(s, r[1], r[2]))
    \/ Route(\E s \in Slots : inflight_list(s))
    \/ Route(\E s \in Slots : inflight_reply(s))
    \/ Route(\E s \in Slots : inflight_reject(s))
    \/ Route(\E s \in Slots : inflight_listed(s))
    \/ Route(\E s \in Slots : inflight_listRejected(s))
    \/ Route(\E s \in Slots : inflight_respond(s))

SpecInflight == InitInflight /\ [][NextInflight]_vars

\* ================================================================= claims

\* C1: a tools/call request never ends in an exception: once served it
\* holds an envelope, and an exception raised on the way (getToolboxClient,
\* the remote callTool) has become an envelope with isError = TRUE and a
\* message.
C1_InvokeNeverRaises ==
    req.kind = "call" =>
        /\ req.result.kind \in {"none", "envelope"}
        /\ req.pc = "done" => req.result.kind = "envelope"
        /\ req.thrown # "" =>
              /\ req.pc = "done"
              /\ req.result.isError
              /\ req.result.text # ""

\* A forwarded call whose remote callTool was rejected on a dead channel.
C1_Witness ==
    /\ req.kind = "call" /\ req.pc = "done"
    /\ ~req.builtin /\ req.thrown = "Not connected"

\* C2 as claimed: a catalog name is never sent to the engine under the
\* caller's name; every other name leads to exactly one remote callTool
\* carrying the caller's name and the caller's arguments unchanged.
C2_Verbatim ==
    (req.kind = "call" /\ req.pc # "idle") =>
        IF req.name \in BuiltinNames
        THEN ~(req.sent > 0 /\ req.wire.name = req.name)
        ELSE /\ req.sent = 1
             /\ req.wire = [name |-> req.name, arguments |-> req.args]

\* C2 as amended: a catalog name is never sent to the engine under the
\* caller's name; every other name, when a client is connected, leads to
\* exactly one remote callTool carrying the caller's name and the caller's
\* arguments when they are an object, {} when they are absent; when no
\* client is connected nothing is sent and an error envelope is returned.
C2_Dispatch ==
    (req.kind = "call" /\ req.pc # "idle") =>
        IF req.name \in BuiltinNames
        THEN ~(req.sent > 0 /\ req.wire.name = req.name)
        ELSE IF req.client = 0
        THEN /\ req.sent = 0
             /\ req.pc = "done" /\ req.result.isError
        ELSE /\ req.sent = 1
             /\ req.wire.name = req.name
             /\ req.wire.arguments =
                    IF req.args.t = "object" THEN req.args
                    ELSE [t |-> "object", v |-> <<>>]

\* A catalog name the engine advertises too, served by the local handler
\* through execute_sql.
C2_Witness ==
    /\ req.kind = "call" /\ req.pc = "await"
    /\ req.name = "list_tables"
    /\ \E i \in DOMAIN remoteTools : remoteTools[i].name = "list_tables"
    /\ req.wire.name = "execute_sql"

\* C3: once a stop() has returned normally on a started instance, a further
\* stop() call raises nothing and touches no resource: no client or
\* transport close, no kill, no unlink, no change to the files or to the
\* engine processes.
C3_StopIdempotent ==
    [][\A j \in StopSlots :
          ((stops[j].fresh \/ stops'[j].fresh) /\ stops'[j] # stops[j]) =>
              /\ UNCHANGED <<clientCloses, transportCloses, kills, unlinks,
                             files, proc>>
              /\ stops'[j].pc # "threw"]_vars

\* A second stop() has run to its end after a first one that closed the
\* channel, killed the spawned engine and unlinked the file.
C3_Witness ==
    \E j \in StopSlots :
        /\ stops[j].fresh /\ stops[j].pc = "done"
        /\ \E i \in Ids : kills[i] = 1 /\ clientCloses[i] = 1
        /\ \E p \in Paths : unlinks[p] = 1

\* C4: a readiness poll fails only after maxAttempts sockets and as many
\* waits, and every poll comes to an end: it reaches the handshake or the
\* failure of start(), whatever each socket does.
C4_BoundedReadiness ==
    /\ [][(startPc = "delay" /\ startPc' = "failed") =>
              (attempts = maxAttempts /\ waits' = maxAttempts)]_vars
    /\ (startPc = "poll") ~>
           (startPc \in {"handshake", "failed"} \/ exited # "running")

\* C5: when the program has exited, no ephemeral config file is left and no
\* engine process is alive.
C5_ReleasedOnExit ==
    exited # "running" =>
        /\ files = {}
        /\ \A i \in Ids : proc[i] # "alive"

\* C6: once an engine has exited no engine is spawned any more, and a
\* tools/call request that arrives after the exit of the connected engine
\* ends in an error envelope, and does end unless the program exits first.
C6_CrashIsFatal ==
    /\ [][(\E i \in Ids : proc[i] = "exited") =>
              \A k \in Ids : proc[k] = "none" => proc'[k] = "none"]_vars
    /\ [][(req.afterExit /\ req.pc = "await" /\ req'.pc # "await") =>
              (req'.pc = "done" /\ req'.result.kind = "envelope"
               /\ req'.result.isError)]_vars
    /\ (req.kind = "call" /\ req.afterExit /\ req.pc = "await") ~>
           \/ req.pc = "done" /\ req.result.kind = "envelope"
                               /\ req.result.isError
           \/ exited # "running"

\* A forwarded call that arrived after the engine's exit and came back as
\* an error envelope.
C6_Witness ==
    /\ req.kind = "call" /\ req.afterExit /\ req.pc = "done"
    /\ req.sent = 1 /\ req.result.isError
    /\ proc[req.client] = "exited"

\* C7: at most one engine process is alive, and once a stop() has torn the
\* handle down (a kill or a close of the channel) no engine is alive again.
C7_SingleHandle ==
    /\ Cardinality({i \in Ids : proc[i] = "alive"}) <= 1
    /\ (\E i \in Ids : kills[i] > 0 \/ clientCloses[i] > 0) =>
           (\A k \in Ids : proc[k] = "alive" =>
                               (kills[k] > 0 \/ clientCloses[k] > 0))

\* C8: the list returned by tools/list is the engine's list followed by
\* the whole catalog in its order, of length |remote| + |built-in|; a name
\* in both appears twice.
C8_ListIsConcatenation ==
    (req.kind = "list" /\ req.result.kind = "tools") =>
        LET ts == req.result.tools
            n == Len(remoteTools)
        IN  /\ Len(ts) = n + Len(BUILTIN_TOOLS)
            /\ \A i \in 1..n : ts[i] = remoteTools[i]
            /\ \A i \in 1..Len(BUILTIN_TOOLS) :
                  /\ ts[n + i].name = BUILTIN_TOOLS[i].name
                  /\ ts[n + i].definedBy = "builtin"
            /\ \A i \in 1..n :
                  remoteTools[i].name \in BuiltinNames =>
                     Cardinality({k \in 1..Len(ts) :
                                     ts[k].name = remoteTools[i].name}) = 2

\* A list served by an engine that advertises list_tables itself.
C8_Witness ==
    /\ req.kind = "list" /\ req.result.kind = "tools"
    /\ \E i \in DOMAIN remoteTools : remoteTools[i].name = "list_tables"

\* What the fallback rule makes of a segment: a placeholder becomes the
\* value of its variable when the variable is set, else its default, else
\* the empty string; literal text stays.
Resolved(g, env) ==
    IF g.seg = "lit" THEN g.text
    ELSE IF g.name \in DOMAIN env THEN env[g.name]
    ELSE IF g.dflt.t = "string" THEN g.dflt.s
    ELSE <<>>

RECURSIVE ResolvedLeaf(_, _)
ResolvedLeaf(segs, env) ==
    IF segs = <<>> THEN <<>>
    ELSE Resolved(Head(segs), env) \o ResolvedLeaf(Tail(segs), env)

\* C9: loadConfig of a readable document does not fail and returns the
\* document with every placeholder of every string leaf resolved by the
\* fallback rule, and with its keys, its other leaves and its shape as
\* they were.
C9_SubstitutionFollowsRule ==
    (cfgPc \in {"loaded", "threw"} /\ cfgIn.status = "ok") =>
        /\ cfgPc = "loaded"
        /\ cfgOut = Shape(cfgIn.shape, ResolvedLeaf(cfgIn.leaf, cfgEnv))

\* The same rule on the documents none of whose placeholders names a
\* property that process.env inherits.
ReplaceFollowsRule_OwnNames ==
    (cfgPc \in {"loaded", "threw"} /\ cfgIn.status = "ok"
       /\ \A i \in DOMAIN cfgIn.leaf : cfgIn.leaf[i].name \notin ObjectPrototype) =>
        /\ cfgPc = "loaded"
        /\ cfgOut = Shape(cfgIn.shape, ResolvedLeaf(cfgIn.leaf, cfgEnv))

ConnectionFields == {"host", "port", "database", "user", "password"}

\* The connection fields the source of a dialect has.
SourceFields(dbType) ==
    CASE dbType \in {"postgres", "mysql", "mongodb", "mssql"} -> ConnectionFields
      [] dbType = "redis" -> {"host", "port", "password"}
      [] dbType \in {"cloud-sql-postgres", "cloud-sql-mysql", "alloydb-pg"} ->
            {"database", "user", "password"}
      [] dbType \in {"sqlite", "spanner", "firestore"} -> {"database"}
      [] OTHER -> {}

\* The environment variable a connection field is read from.
FieldVar(dbType, f) ==
    CASE f = "database" /\ dbType = "spanner" -> "SPANNER_DATABASE"
      [] f = "database" /\ dbType = "firestore" -> "FIRESTORE_DATABASE"
      [] f = "database" -> "DATABASE_NAME"
      [] f = "host" -> "DATABASE_HOST"
      [] f = "port" -> "DATABASE_PORT"
      [] f = "user" -> "DATABASE_USER"
      [] OTHER -> "DATABASE_PASSWORD"

Present(source, f) == f \in DOMAIN source /\ source[f].t # "undefined"

\* C10: generatePrebuiltConfig returns one source, of the dialect's kind,
\* in which a connection field is present exactly when the dialect has it
\* and its environment variable is set; for sqlite with DATABASE_NAME alone
\* that is sqlite-db with the given database and nothing else.
C10_FieldsFollowEnv ==
    cfgPc = "generated" =>
        /\ Cardinality(DOMAIN cfgOut.sources) = 1
        /\ \A n \in DOMAIN cfgOut.sources :
              LET source == cfgOut.sources[n]
              IN  /\ source.kind = JsString(cfgIn.dbType)
                  /\ \A f \in ConnectionFields :
                        Present(source, f) <=>
                           /\ f \in SourceFields(cfgIn.dbType)
                           /\ FieldVar(cfgIn.dbType, f) \in DOMAIN cfgEnv
                  /\ (cfgIn.dbType = "sqlite" /\ DOMAIN cfgEnv = {"DATABASE_NAME"}) =>
                        /\ n = "sqlite-db"
                        /\ source.database = JsString(cfgEnv["DATABASE_NAME"])

\* The unified variable and the suffix of the dialect variable of each
\* connection parameter.
MappedPairs ==
    { <<"DATABASE_HOST", "_HOST">>, <<"DATABASE_PORT", "_PORT">>,
      <<"DATABASE_NAME", "_DATABASE">>, <<"DATABASE_USER", "_USER">>,
      <<"DATABASE_PASSWORD", "_PASSWORD">> }

\* The environment the precedence rule asks for: a dialect variable that is
\* set stays, else the unified variable that is set is copied to it, else
\* it is absent; all the rest is the input.
Precedence(env, dialect) ==
    IF dialect = "" THEN env
    ELSE LET T == upperType(dialect)
             copied == {p \in MappedPairs :
                           (T \o p[2]) \notin DOMAIN env /\ p[1] \in DOMAIN env}
         IN  [n \in DOMAIN env \cup {T \o p[2] : p \in copied} |->
                 IF n \in DOMAIN env THEN env[n]
                 ELSE env[(CHOOSE p \in copied : T \o p[2] = n)[1]]]

\* C11: the mapper returns the environment of the precedence rule: set
\* dialect variables are never overwritten, set unified variables are
\* copied to unset dialect variables, nothing else changes.
C11_MapperPrecedence ==
    (cfgPc = "mapped" /\ cfgIn.use = "mapper") =>
        cfgOut = Precedence(cfgIn.env, cfgIn.prebuiltType)

\* C18: mapping a mapped environment returns it as it is, and the call
\* leaves the object it was given as it was.
C18_MapperIdempotent ==
    /\ (cfgPc \in {"mapped", "remapped"} /\ cfgIn.use = "mapper") =>
           cfgEnv = cfgIn.env
    /\ (cfgPc = "remapped" /\ cfgIn.use = "mapper") => cfgOut = cfgIn.once

\* An environment that the mapper changed (a unified variable copied to the
\* dialect's name) has been mapped a second time.
C18_Witness ==
    /\ cfgPc = "remapped" /\ cfgIn.use = "mapper"
    /\ cfgIn.prebuiltType = "postgres"
    /\ cfgIn.once # cfgIn.env
    /\ "POSTGRES_HOST" \in DOMAIN cfgIn.once
    /\ "POSTGRES_HOST" \notin DOMAIN cfgIn.env

\* The limit the clamping rule asks for: the default when absent, 1 below
\* 1, 100 above 100, the input otherwise.
Clamped(a, dflt) ==
    IF "limit" \notin DOMAIN a THEN dflt
    ELSE IF a.limit < 1 THEN 1
    ELSE IF a.limit > 100 THEN 100
    ELSE a.limit

\* C12: the statement of preview_table and of sample_distinct is the one
\* rendered with the clamped limit: default 5 and 20 when absent, 1 for an
\* input below 1, 100 for an input above 100, the input itself otherwise.
C12_LimitClamped ==
    (cfgPc = "handled" /\ cfgIn.use = "catalog" /\ ~cfgOut.early) =>
        LET a == cfgIn.args
            d == cfgIn.dbType
        IN  /\ cfgIn.name = "preview_table" =>
                 cfgOut.sql = getSQL("previewTable", d,
                                     [table |-> a.table, schema |-> Str(a, "schema"),
                                      limit |-> Clamped(a, 5)])
            /\ cfgIn.name = "sample_distinct" =>
                 cfgOut.sql = SQL_sampleDistinct(normalizeDbType(d), a.table,
                                                 a.column, Clamped(a, 20),
                                                 Str(a, "schema"))

\* The dialect whose variant a dialect shares: the family of postgres, the
\* family of mysql, itself when it has variants of its own, none otherwise.
Family(dbType) ==
    IF dbType \in {"cloud-sql-postgres", "alloydb-pg"} THEN "postgres"
    ELSE IF dbType = "cloud-sql-mysql" THEN "mysql"
    ELSE IF dbType \in {"postgres", "mysql", "sqlite", "mssql"} THEN dbType
    ELSE ""

\* C19: an entry renders for a dialect what it renders for the dialect's
\* family, and what it renders with no dialect when the family has no
\* variant in the entry; describe_table on sqlite renders
\* PRAGMA table_info(t) and hands it to execute_sql.
C19_DialectTemplate ==
    (cfgPc = "handled" /\ cfgIn.use = "catalog") =>
        LET own == handler(cfgIn.name, cfgIn.args, Family(cfgIn.dbType))
            generic == handler(cfgIn.name, cfgIn.args, "")
            h == [early |-> cfgOut.early, text |-> cfgOut.text, sql |-> cfgOut.sql]
        IN  /\ h = own
            /\ (Family(cfgIn.dbType) = ""
                  \/ (cfgIn.name = "schema_info"
                        /\ Family(cfgIn.dbType) \in {"mysql", "sqlite"})) =>
                  h = generic
            /\ (cfgIn.name = "describe_table" /\ cfgIn.dbType = "sqlite"
                  /\ ~cfgOut.early) =>
                  /\ cfgOut.sql = "PRAGMA table_info(" \o cfgIn.args.table \o ")"
                  /\ cfgOut.wire = [name |-> "execute_sql",
                                    arguments |-> Obj([sql |-> cfgOut.sql])]

\* describe_table of users on a dialect of the postgres family whose name
\* is not a key of the templates.
C19_Witness ==
    /\ cfgPc = "handled" /\ cfgIn.use = "catalog"
    /\ cfgIn.name = "describe_table" /\ cfgIn.dbType = "cloud-sql-postgres"
    /\ ~cfgOut.early
    /\ cfgOut.sql # handler("describe_table", cfgIn.args, "").sql

\* The first of the texts given by the command line, by the environment
\* and by default.
Precedes(values, option, env, name, dflt) ==
    IF option \in DOMAIN values THEN values[option]
    ELSE IF name \in DOMAIN env THEN env[name]
    ELSE dflt

\* C13: the engine runs in http mode exactly when the first of --transport
\* and MCP_TOOLBOX_TRANSPORT that is present asks for http, in stdio mode
\* otherwise; in http mode its host and port are the first present of
\* --toolbox-host/--toolbox-port, MCP_TOOLBOX_HOST/MCP_TOOLBOX_PORT and
\* 127.0.0.1:5000.
C13_TransportPrecedence ==
    (cfgPc = "launched" /\ cfgIn.use = "cli") =>
        LET v == cfgIn.values
            e == cfgIn.env
            asked == Precedes(v, "transport", e, "MCP_TOOLBOX_TRANSPORT", "stdio")
            http == toLowerCase(asked) = "http"
        IN  /\ cfgOut.engine.mode = (IF http THEN "http" ELSE "stdio")
            /\ http =>
                 /\ cfgOut.engine.host =
                      Precedes(v, "toolbox-host", e, "MCP_TOOLBOX_HOST", "127.0.0.1")
                 /\ cfgOut.engine.port =
                      Number(Precedes(v, "toolbox-port", e, "MCP_TOOLBOX_PORT", "5000"))

\* The command line asks for http against the environment, and gives a host
\* and a port that the environment gives too.
C13_Witness ==
    /\ cfgPc = "launched" /\ cfgIn.use = "cli"
    /\ "transport" \in DOMAIN cfgIn.values /\ cfgIn.values.transport = "HTTP"
    /\ "MCP_TOOLBOX_TRANSPORT" \in DOMAIN cfgIn.env
    /\ cfgIn.env["MCP_TOOLBOX_TRANSPORT"] = "stdio"
    /\ {"toolbox-host", "toolbox-port"} \subseteq DOMAIN cfgIn.values
    /\ {"MCP_TOOLBOX_HOST", "MCP_TOOLBOX_PORT"} \subseteq DOMAIN cfgIn.env
    /\ cfgOut.engine.mode = "http"
    /\ cfgOut.engine.host = "0.0.0.0"
    /\ cfgOut.engine.port = [finite |-> TRUE, n |-> 5900]

\* C14: with --prebuilt postgres, a --db-host or --db-port that is given is
\* the host or the port of the generated Source and of the environment the
\* engine is launched with.
C14_CliOverrides ==
    (cfgPc = "launched" /\ cfgIn.use = "cli" /\ cfgIn.prebuiltType = "postgres") =>
        LET v == cfgIn.values
            source == cfgOut.config.sources["postgres-db"]
        IN  /\ Truthy(v, "db-host") =>
                 /\ source.host = JsString(v["db-host"])
                 /\ Truthy(cfgOut.engine.env, "POSTGRES_HOST")
                 /\ cfgOut.engine.env["POSTGRES_HOST"] = v["db-host"]
            /\ Truthy(v, "db-port") =>
                 /\ source.port = JsNumber(Number(v["db-port"]).n)
                 /\ Truthy(cfgOut.engine.env, "POSTGRES_PORT")
                 /\ cfgOut.engine.env["POSTGRES_PORT"] = v["db-port"]

\* C15: with the dialect postgres, a POSTGRES_HOST or POSTGRES_PORT that is
\* set while DATABASE_HOST or DATABASE_PORT is not is the host or the port
\* of the generated Source.
C15_LegacyVariables ==
    (cfgPc # "call" /\ cfgIn.use = "cli" /\ cfgIn.prebuiltType = "postgres") =>
        LET e == cfgIn.env
            source == cfgOut.config.sources["postgres-db"]
        IN  /\ ("POSTGRES_HOST" \in DOMAIN e /\ "DATABASE_HOST" \notin DOMAIN e) =>
                 source.host = JsString(e["POSTGRES_HOST"])
            /\ ("POSTGRES_PORT" \in DOMAIN e /\ "DATABASE_PORT" \notin DOMAIN e) =>
                 source.port = JsNumber(Number(e["POSTGRES_PORT"]).n)

\* obj[key] of an object that has the key.
Member(obj, key) ==
    obj.items[CHOOSE i \in DOMAIN obj.keys : obj.keys[i] = key]

HasKey(obj, key) ==
    obj.t = "object" /\ \E i \in DOMAIN obj.keys : obj.keys[i] = key

\* Every tool of the document that has a source names a key of sources.
SourcesResolve(doc) ==
    (HasKey(doc, "tools") /\ Member(doc, "tools").t = "object") =>
        \A i \in DOMAIN Member(doc, "tools").items :
            LET tool == Member(doc, "tools").items[i]
            IN  HasKey(tool, "source") =>
                  /\ HasKey(doc, "sources")
                  /\ HasKey(Member(doc, "sources"), StringOf(Member(tool, "source")))

\* C16: loadConfig throws when the file cannot be read or parsed, and
\* returns a configuration only when every tool's source is a key of the
\* sources of the same document.
C16_UnknownSourceRejected ==
    (cfgPc \in {"loaded", "threw"} /\ cfgIn.use = "file") =>
        /\ cfgIn.status # "ok" => cfgPc = "threw"
        /\ cfgPc = "loaded" => SourcesResolve(cfgOut)

RECURSIVE NoPattern(_)
\* No string leaf of the value holds a match of the placeholder pattern.
NoPattern(obj) ==
    IF obj.t = "string"
    THEN \A i \in 1..Len(obj.s) : ~MatchAt(obj.s, i).ok
    ELSE IF obj.t \in {"array", "object"}
         THEN \A i \in DOMAIN obj.items : NoPattern(obj.items[i])
         ELSE TRUE

\* C17: a loaded document is left unchanged by a second substitution in
\* the same environment, and none of its string leaves holds a placeholder.
C17_SubstitutionIdempotent ==
    (cfgPc = "loaded" /\ cfgIn.use = "file") =>
        /\ replaceEnvVars(cfgOut, cfgEnv) = cfgOut
        /\ NoPattern(cfgOut)

\* The steps of start() the lifecycle orders: an engine is launched only
\* with its file written, polled only once launched, shaken hands with in
\* http mode only after a poll that connected; the channel is published
\* and the front-end connected only after the handshake.
StartOrder ==
    /\ \A i \in Ids : (proc[i] = "none" /\ proc'[i] # "none") =>
           (configPath' # 0 /\ configPath' \in files')
    /\ startPc' \in {"poll", "delay", "hung"} =>
           (nStarts' > 0 /\ proc'[nStarts'] # "none")
    /\ (~stdio /\ startPc' = "handshake" /\ startPc # "handshake") =>
           startPc = "poll"
    /\ toolboxClient' # 0 => toolboxClient' \in handshaken'
    /\ (frontend' = "connected" /\ frontend # "connected") =>
           (startPc = "connect" /\ nStarts \in handshaken)

\* Starting is entered from Uninitialized only: no start() begins after a
\* start() or a stop() has begun.
NoReentry == nStarts' # nStarts => (nStarts = 0 /\ stopCalls = 0)

\* C20: every step of the supervisor keeps the order of start(), and no
\* start() begins once the instance has left Uninitialized, so that
\* Starting is not entered again after Stopped or Failed.
C20_LifecycleOrder == [][StartOrder /\ NoReentry]_vars

\* A stop() call comes to its end in this step, by returning or by raising.
StopEnds(j) ==
    /\ stops[j].pc \notin {"done", "threw"}
    /\ stops'[j].pc \in {"done", "threw"}

\* C21: when a stop() call on an instance whose last start() connected the
\* channel comes to its end, whether it returns or raises, the channel is closed, the engine of the last
\* start is not alive and the file has been unlinked: no handle is left.
C21_TeardownGuaranteed ==
    [][\A j \in StopSlots :
          (StopEnds(j) /\ nStarts \in handshaken) =>
              /\ toolboxClient' = 0 /\ toolboxTransport' = 0
              /\ toolboxProcess' = 0 /\ configPath' = 0
              /\ proc'[nStarts] # "alive"]_vars

\* C22: whatever the overlap of the stop() calls of the program, each
\* channel is closed at most once, each engine is killed at most once and
\* each file is unlinked at most once.
C22_StopDeduplicated ==
    /\ \A i \in Ids : clientCloses[i] <= 1 /\ transportCloses[i] <= 1
                        /\ kills[i] <= 1
    /\ \A p \in Paths : unlinks[p] <= 1

\* The parameters the entry of a name declares as required.
Required(name) ==
    LET i == CHOOSE k \in DOMAIN BUILTIN_TOOLS : BUILTIN_TOOLS[k].name = name
    IN  {BUILTIN_TOOLS[i].required[k] : k \in DOMAIN BUILTIN_TOOLS[i].required}

\* C23: a call of a catalog entry in which a required parameter is missing
\* or empty returns an envelope with isError = TRUE and issues no remote
\* call.
C23_ValidationFirst ==
    (cfgPc = "handled" /\ cfgIn.use = "catalog"
       /\ \E k \in Required(cfgIn.name) :
              k \notin DOMAIN cfgIn.args \/ cfgIn.args[k] = "") =>
        /\ cfgOut.early
        /\ cfgOut.wire = NoWire
        /\ cfgOut.result.kind = "envelope" /\ cfgOut.result.isError

\* sample_distinct called with its table and without its column.
C23_Witness ==
    /\ cfgPc = "handled" /\ cfgIn.use = "catalog"
    /\ cfgIn.name = "sample_distinct"
    /\ "table" \in DOMAIN cfgIn.args /\ cfgIn.args.table = "users"
    /\ "column" \notin DOMAIN cfgIn.args
    /\ cfgOut.wire = NoWire /\ cfgOut.result.isError

\* C24: a catalog call whose required parameters are all given, served by
\* a connected client, issues one remote call, to execute_sql with the
\* rendered statement as its only argument; when the engine answers with an
\* envelope, that envelope is the result.
C24_OneRawExecute ==
    (req.kind = "call" /\ req.builtin /\ req.thrown # NotConnectedMsg
       /\ \A k \in Required(req.name) :
              k \in DOMAIN safeArgs(req.args) /\ safeArgs(req.args)[k] # "") =>
        /\ req.sent = 1
        /\ req.wire =
             [name |-> "execute_sql",
              arguments |->
                 Obj([sql |-> handler(req.name, safeArgs(req.args),
                                      prebuiltType).sql])]
        /\ (req.pc = "done" /\ req.thrown = "") =>
               \E e \in RemoteEnvelopes : req.result = Returned(e)

\* describe_table of users answered by the engine with an error envelope.
C24_Witness ==
    /\ req.kind = "call" /\ req.pc = "done" /\ req.name = "describe_table"
    /\ req.sent = 1 /\ req.thrown = ""
    /\ req.result = Returned(Envelope("engine error", TRUE))

\* The kind of the configuration's one Source, generated or loaded.
KindOf(config) ==
    IF "sources" \in DOMAIN config
    THEN config.sources[CHOOSE n \in DOMAIN config.sources : TRUE].kind.s
    ELSE IF Member(Member(config, "sources").items[1], "kind").s
              = <<"s", "q", "l", "i", "t", "e">>
         THEN "sqlite" ELSE "other"

\* The dialect a Source kind stands for.
DialectOf(kind) ==
    IF kind \in {"postgres", "cloud-sql-postgres", "alloydb-pg"} THEN "postgres"
    ELSE IF kind \in {"mysql", "cloud-sql-mysql"} THEN "mysql"
    ELSE IF kind \in {"sqlite", "mssql"} THEN kind
    ELSE "default"

\* C25: the dialect a catalog call uses is the one the kind of the active
\* Source stands for, whether the Source was generated for --prebuilt or
\* loaded from the file of --config, and its statement is the one of that
\* dialect.
C25_DialectFromSource ==
    (cfgPc = "called" /\ cfgIn.use = "cli") =>
        /\ cfgOut.dialect = DialectOf(KindOf(cfgOut.config))
        /\ cfgOut.call.sql =
              SQL_describeTable(DialectOf(KindOf(cfgOut.config)), "users", "")

\* An identifier in the quoting of a dialect: backticks for mysql, brackets
\* for mssql, double quotes for the others.
Quote(dialect, id) ==
    CASE dialect = "mysql" -> Backtick \o id \o Backtick
      [] dialect = "mssql" -> "[" \o id \o "]"
      [] OTHER -> "\"" \o id \o "\""

\* A table with the schema the dialect puts before it, each in quotes.
Qualified(dialect, table, schema) ==
    IF dialect \in {"postgres", "mssql", "default"} /\ schema \notin {"", "public"}
    THEN Quote(dialect, schema) \o "." \o Quote(dialect, table)
    ELSE Quote(dialect, table)

\* The statement of an entry that names a table or a column as an
\* identifier, with every identifier in the quoting of the dialect.
QuotedStatement(name, a, dialect) ==
    LET t == Qualified(dialect, a.table, Str(a, "schema"))
    IN  CASE name = "preview_table" ->
               IF dialect = "mssql"
               THEN "SELECT TOP " \o ToString(clampLimit(a, 5)) \o " * FROM " \o t
               ELSE "SELECT * FROM " \o t \o " LIMIT " \o ToString(clampLimit(a, 5))
          [] name = "count_rows" -> "SELECT COUNT(*) as row_count FROM " \o t
          [] name = "sample_distinct" ->
               IF dialect = "mssql"
               THEN "SELECT DISTINCT TOP " \o ToString(clampLimit(a, 20)) \o " "
                      \o Quote(dialect, a.column) \o " FROM " \o t
               ELSE "SELECT DISTINCT " \o Quote(dialect, a.column) \o " FROM "
                      \o t \o " LIMIT " \o ToString(clampLimit(a, 20))
          [] name = "describe_table" ->
               IF dialect = "mysql"
               THEN "DESCRIBE " \o Quote(dialect, a.table)
               ELSE "PRAGMA table_info(" \o Quote(dialect, a.table) \o ")"

\* The calls whose statement names a caller's identifier as an identifier.
NamesIdentifier(name, dialect) ==
    \/ name \in {"preview_table", "count_rows", "sample_distinct"}
    \/ name = "describe_table" /\ dialect \in {"mysql", "sqlite"}

\* C26: in the statement of preview_table, count_rows and sample_distinct,
\* and of describe_table on mysql and sqlite, the table, the column and
\* the schema stand in the quoting of the dialect.
C26_IdentifiersQuoted ==
    (cfgPc = "handled" /\ cfgIn.use = "catalog" /\ ~cfgOut.early
       /\ NamesIdentifier(cfgIn.name, normalizeDbType(cfgIn.dbType))) =>
        cfgOut.sql = QuotedStatement(cfgIn.name, cfgIn.args,
                                     normalizeDbType(cfgIn.dbType))

\* Instance i runs on its own file: the file of its path is on disk and
\* holds its configuration.
OwnFile(i) ==
    /\ cfgOut.configPath[i] # 0
    /\ cfgOut.disk[cfgOut.configPath[i]] = i

\* C27: two live supervisors never hold the same config path, and the file
\* of a live supervisor is neither overwritten nor deleted by the other.
C27_UniqueConfigPath ==
    cfgPc = "pair" =>
        \A i, j \in Supervisors :
            (i # j /\ cfgOut.live[i] /\ cfgOut.live[j]) =>
                /\ cfgOut.configPath[i] # cfgOut.configPath[j]
                /\ OwnFile(i)

\* The step of start() that writes the config file: it ends the start when
\* writeFileSync throws.
WriteAborts == nStarts' = nStarts + 1 /\ startPc' = "failed"

\* A step of stop() whose unlinkSync threw: the unlink was attempted and the
\* file is still on disk.
UnlinkFailed ==
    /\ configPath # 0 /\ configPath \in files'
    /\ unlinks'[configPath] = unlinks[configPath] + 1

\* The stop() goes on after the unlink: it forgets the path and is awaiting
\* server.close().
StopGoesOn ==
    /\ configPath' = 0 /\ toolboxProcess' = 0
    /\ \E j \in StopSlots : stops[j].pc # "server" /\ stops'[j].pc = "server"

\* C28: a failure to write the ephemeral file does not end start(), and a
\* failure to delete it does not keep stop() from its remaining steps.
C28_FileFailuresNonFatal ==
    [][~WriteAborts /\ (UnlinkFailed => StopGoesOn)]_vars

\* The result the caller of request r is owed: computed from the name and
\* the arguments of r and from how its own remote call ended.
OwnResult(r) ==
    LET builtin == findBuiltinTool(r.name)
        h == handler(r.name, safeArgs(r.args), prebuiltType)
        wire == IF builtin THEN executeSQL(h.sql)
                ELSE [name |-> r.name, arguments |-> Obj(safeArgs(r.args))]
    IN  IF r.kind = "list"
        THEN IF r.thrown = "" THEN Listed(allTools(remoteTools))
             ELSE Raised(r.thrown)
        ELSE IF builtin /\ h.early THEN Returned(Envelope(h.text, TRUE))
        ELSE IF r.thrown = "" THEN Returned(Answer(wire))
        ELSE IF builtin
        THEN Returned(Envelope("Error executing SQL: " \o r.thrown, TRUE))
        ELSE Returned(Envelope("Error: " \o r.thrown, TRUE))

\* Every finished request holds the result owed to its own caller.
OwnResults ==
    \A s \in Slots : req[s].pc = "done" => req[s].result = OwnResult(req[s])

\* Whatever the other request does, a free slot takes a request and a
\* call waiting on a live channel for a tool the engine serves is answered.
NotBlocked ==
    \A s \in Slots :
        /\ (exited = "running" /\ frontend = "connected" /\ req[s].pc = "idle")
              => ENABLED inflight_list(s)
        /\ (exited = "running" /\ req[s].pc = "await" /\ req[s].kind = "call"
              /\ Connected(req[s].client) /\ req[s].wire.name \in RemoteNames)
              => ENABLED inflight_reply(s)

\* A step of a request leaves the supervisor's references alone.
LifecycleUntouched ==
    req' # req => UNCHANGED <<toolboxProcess, toolboxClient, toolboxTransport,
                              configPath>>

\* A step of one request leaves every other request as it was.
OthersUntouched ==
    \A s \in Slots :
        req'[s] # req[s] => \A t \in Slots \ {s} : req'[t] = req[t]

\* C29: listTools and invoke leave the process reference, the channel
\* reference and the config path unchanged; with requests in flight
\* together, each gets the result for its own name and arguments, and one
\* that fails or never completes neither changes nor blocks another.
C29_InvocationsIndependent ==
    /\ [](cfgPc = "off" => OwnResults /\ NotBlocked)
    /\ [][LifecycleUntouched /\ OthersUntouched]_vars

\* Two requests were in flight together; one failed on the engine and the
\* other got its answer.
C29_Witness ==
    /\ toolboxClient # 0 /\ configPath # 0
    /\ req[1].pc = "done" /\ req[1].kind = "call" /\ req[1].thrown = "MCP error"
    /\ req[2].pc = "done" /\ req[2].kind = "call" /\ req[2].thrown = ""
    /\ req[2].sent = 1 /\ ~req[2].result.isError
    /\ req[1].name # req[2].name

\* A request arrives and its handler runs to its first await or its end.
Arrives == req.pc = "idle" /\ req'.pc # "idle"

\* The remote listing of the request in flight ends.
ListingEnds == req.pc = "await" /\ req.kind = "list" /\ req'.pc = "done"

\* C30: with no channel, listTools raises and invoke returns an error
\* envelope without a remote call; a listing that ends either raises or
\* returns the engine's tools followed by the catalog, never the catalog
\* alone.
C30_ListPropagatesFailure ==
    [][/\ (Arrives /\ toolboxClient = 0 /\ req'.kind = "list") =>
              req'.pc = "done" /\ req'.result.kind = "throw"
       /\ (Arrives /\ toolboxClient = 0 /\ req'.kind = "call") =>
              /\ req'.pc = "done" /\ req'.sent = 0
              /\ req'.result.kind = "envelope" /\ req'.result.isError
       /\ ListingEnds =>
              \/ req'.result.kind = "throw"
              \/ /\ Connected(req.client)
                 /\ req'.result = Listed(remoteTools \o getBuiltinToolDefinitions)]_vars

\* stop() has cleared the channel, the front-end still serves, and a
\* tools/list request was answered by the handler's exception.
C30_Witness ==
    /\ cfgPc = "off"
    /\ toolboxClient = 0 /\ frontend = "connected" /\ nStarts > 0
    /\ req.kind = "list" /\ req.pc = "done"
    /\ req.result = Raised(NotConnectedMsg)

====
